---- MODULE Spec2Model ----
\* Model of the organism / fruit / collision simulation of aria-snake
\* (class Grid, Matter.js backed version) as a state machine.
\*
\* Numbers: every length is an integer number of milli-units (1 world unit =
\* 1000), every angle an integer number of milliradians, every time an integer
\* number of milliseconds, and Math.random() yields an integer 0..999 that
\* stands for the float r/1000.
EXTENDS Integers, Sequences, FiniteSets, TLC

VARIABLES
    width,            \* Grid.width
    depth,            \* Grid.depth
    world,            \* Matter world: body identity -> body record
    nextBodyId,       \* next fresh body identity
    wallBodies,       \* Grid.wallBodies   (sequence of body identities)
    snakeBodies,      \* Grid.snakeBodies  (sequence of body identities)
    organisms,        \* Grid.organisms
    nextOrganismId,   \* Grid.nextOrganismId
    fruits,           \* Grid.fruits
    uTime,            \* bgMaterial.uniforms.uTime.value (ms)
    ret,              \* the last public call: operation, arguments, result
    log,              \* phases executed by the last update call, in order
    frame,            \* the Grid.update call in flight: its position and locals
    snake,            \* Snake: position (fine units) and recorded path
    calls,            \* Game.update: frames run, and the calls of the last one in order
    musicStarted,     \* Game.musicStarted
    audio             \* Audio: context, isPlaying, pending continuations, timers

\* the state of the Grid, and the state of the Game around it
gridVars == <<width, depth, world, nextBodyId, wallBodies, snakeBodies, organisms,
              nextOrganismId, fruits, uTime, ret, log, frame>>

gameVars == <<snake, calls, musicStarted, audio>>

vars == <<gridVars, gameVars>>

-----------------------------------------------------------------------------
\* Bounds of the model

\* number of update calls explored by Spec
MaxFrames == 7
\* number of update calls explored by SpecQuery
MaxQueryFrames == 2
\* number of relaxation frames explored by SpecRelax
MaxRelaxFrames == 120
\* frames of a run in which update is taken phase by phase
MaxSteppedFrames == 3
\* calls of Audio.startBackgroundMusic explored by SpecAudio
MaxStarts == 3
\* notes one run of SpecAudio plays
MaxNotes == 6
\* frames of Game.update explored by SpecGame
MaxGameFrames == 3

-----------------------------------------------------------------------------
\* Program constants

TARGET_ORGANISM_COUNT == 6
\* CONFIG.FRUIT.TARGET_COUNT, CONFIG.GRID.FIXED_SIDE and the fruit scale
\* CONFIG.FRUIT.SIZE_CELLS * CONFIG.GRID.CELL_SIZE come from constants.ts
FRUIT_TARGET_COUNT == 2
FIXED_SIDE == 20000
FRUIT_SIZE == 1000
\* CONFIG.SNAKE (constants.ts): speed in milli-units per second, radius,
\* safety margin, node spacing and initial node count
SNAKE_SPEED == 50000
CIRCLE_RADIUS == 500
SAFETY_MARGIN == 100
NODE_SPACING == 400
INITIAL_NODES == 5

WallThickness == 10000
SnakeProxyRadius == 500
SnakeProxySeparation == 800
ParkCoordinate == 9999000
LookAhead == 4000
RayWidth == 500
SpawnAttempts == 10
SpawnInset == 6000
SpawnClearance == 8000
HeadBodyRadius == 600
FruitInset == 2000
FruitProbeRadius == 500
FruitCollisionRadius == 500
Stiffness == 150
WiggleAmplitude == 20
FollowerBase == 5
PathSpacing == 100
MoveThreshold == 2
MinMoveSq == 400
NoteSteps == 4
Patterns == 4
PadVoices == 4

-----------------------------------------------------------------------------
\* Fixed-point arithmetic

\* F applied to the value v: names a value that is computed once and used
\* several times
With(v, F(_)) == F(v)

Abs(a) == IF a < 0 THEN -a ELSE a

Max(a, b) == IF a > b THEN a ELSE b

Min(a, b) == IF a < b THEN a ELSE b

\* a * b / 1000, rounded to the nearest integer
Fx(a, b) ==
    LET p == a * b
    IN  IF p >= 0 THEN (p + 500) \div 1000 ELSE -((500 - p) \div 1000)

\* a * b / c for c > 0, rounded to the nearest integer
MulDiv(a, b, c) ==
    LET p == a * b
    IN  IF p >= 0 THEN (2 * p + c) \div (2 * c) ELSE -((c - 2 * p) \div (2 * c))

RECURSIVE SqrtIter(_, _)
SqrtIter(n, x) ==
    LET y == (x + n \div x) \div 2
    IN  IF y >= x THEN x ELSE SqrtIter(n, y)

\* floor of the square root of n, by Newton's iteration from x0 >= sqrt(n)
ISqrt(n, x0) == IF n <= 0 THEN 0 ELSE SqrtIter(n, x0)

\* Vector3.length of (dx, dy, dz)
Length3(dx, dy, dz) ==
    ISqrt(dx * dx + dy * dy + dz * dz, Abs(dx) + Abs(dy) + Abs(dz))

\* |(dx, dy, dz)| < d, compared without forming squares of far-away
\* coordinates
DistLess(dx, dy, dz, d) ==
    /\ Abs(dx) < d
    /\ Abs(dy) < d
    /\ Abs(dz) < d
    /\ dx * dx + dy * dy + dz * dz < d * d

\* sine on [0, pi/2] by its Taylor polynomial, argument in mrad, value * 1000
SinQ(x) ==
    With(Fx(x, x), LAMBDA x2 :
    With(Fx(x, x2), LAMBDA x3 :
    With(Fx(x3, x2), LAMBDA x5 :
        Min(1000, Max(0, x - (x3 \div 6) + (x5 \div 120)
                           - (Fx(x5, x2) \div 5040))))))

\* Math.sin, argument in mrad, value * 1000
Sin(a) ==
    LET n == a % 6283
    IN  (IF n <= 3142 THEN 1 ELSE -1)
          * SinQ(IF n <= 1571 THEN n
                 ELSE IF n <= 3142 THEN 3142 - n
                 ELSE IF n <= 4712 THEN n - 3142
                 ELSE 6283 - n)

\* Math.cos, argument in mrad, value * 1000
Cos(a) == Sin(a + 1571)

-----------------------------------------------------------------------------
\* Math.random(): the k-th draw of a call is determined by the seed chosen
\* for that call; a seed <<c, a>> yields (c + a * k) mod 1000.

Seeds == { <<500, 0>>, <<137, 619>>, <<910, 277>> }

Rnd(seed, k) == (seed[1] + seed[2] * k) % 1000

-----------------------------------------------------------------------------
\* Matter bodies

\* Matter.Bodies.circle(x, y, r, options)
Circle(x, y, r, label, isStatic, isSensor) ==
    [label |-> label, x |-> x, y |-> y, circleRadius |-> r,
     hw |-> r, hh |-> r, vx |-> 0, vy |-> 0,
     isStatic |-> isStatic, isSensor |-> isSensor]

\* Matter.Bodies.rectangle(x, y, w, h, options)
Rectangle(x, y, w, h, label) ==
    [label |-> label, x |-> x, y |-> y, circleRadius |-> 0,
     hw |-> w \div 2, hh |-> h \div 2, vx |-> 0, vy |-> 0,
     isStatic |-> TRUE, isSensor |-> FALSE]

\* body.bounds
Bounds(b) ==
    [minx |-> b.x - b.hw, maxx |-> b.x + b.hw,
     miny |-> b.y - b.hh, maxy |-> b.y + b.hh]

\* Matter.Bounds.overlaps
BoundsOverlapStrict(a, b) ==
    /\ a.minx < b.maxx
    /\ a.maxx > b.minx
    /\ a.maxy > b.miny
    /\ a.miny < b.maxy

BoundsOverlap(a, b) ==
    /\ a.minx <= b.maxx
    /\ a.maxx >= b.minx
    /\ a.maxy >= b.miny
    /\ a.miny <= b.maxy

\* the function f with every value computed (a function written as
\* [i \in S |-> e] is otherwise re-computed at each application)
Strict(f) == f @@ << >>

\* Matter.World.add of one body under a fresh identity
WorldAdd(w, id, body) == w @@ (id :> body)

\* Matter.World.remove
WorldRemove(w, id) == Strict([i \in DOMAIN w \ {id} |-> w[i]])

\* Matter.Body.setPosition
SetPosition(w, id, x, y) == [w EXCEPT ![id].x = x, ![id].y = y]

\* Matter.Body.setVelocity
SetVelocity(w, id, vx, vy) == [w EXCEPT ![id].vx = vx, ![id].vy = vy]

-----------------------------------------------------------------------------
\* Grid.resize: the four walls around a width x depth arena

\* variant: the left wall placed without the half width
WallsOfLeftAtOffset(w, d) ==
    LET halfW  == w \div 2
        halfD  == d \div 2
        offset == WallThickness \div 2
    IN  << Rectangle(0, -halfD - offset, w, WallThickness, "Wall Body"),
           Rectangle(0, halfD + offset, w, WallThickness, "Wall Body"),
           Rectangle(-offset, 0, WallThickness, d, "Wall Body"),
           Rectangle(halfW + offset, 0, WallThickness, d, "Wall Body") >>

WallsOf(w, d) ==
    LET halfW  == w \div 2
        halfD  == d \div 2
        offset == WallThickness \div 2
    IN  << Rectangle(0, -halfD - offset, w, WallThickness, "Wall Body"),
           Rectangle(0, halfD + offset, w, WallThickness, "Wall Body"),
           Rectangle(-halfW - offset, 0, WallThickness, d, "Wall Body"),
           Rectangle(halfW + offset, 0, WallThickness, d, "Wall Body") >>

\* aspect ratios (* 1000) the renderer reports
Aspects == { 1000, 1500 }

NoCall == [op |-> "none"]

\* no update call is in flight
Idle == [pc |-> "idle"]

-----------------------------------------------------------------------------
\* Snake and Audio as constructed by new Game()

\* the head position is kept in fine units of 0.00005 (Fine per milli-unit),
\* so that the 0.0001 threshold of Game.update is MoveThreshold fine units
\* and the 0.000001 threshold of Snake.move is MinMoveSq; path points are in
\* milli-units
Fine == 20

\* a fine coordinate rounded to milli-units
ToMilli(a) == IF a >= 0 THEN (2 * a + Fine) \div (2 * Fine)
              ELSE -((Fine - 2 * a) \div (2 * Fine))

\* "Math.ceil(maxPathLength / spacing)"
MaxPoints == (INITIAL_NODES * NODE_SPACING + PathSpacing - 1) \div PathSpacing

\* the spiral loop of the constructor, on the record of its locals: angle
\* in mrad, the arc length so far, the last point kept, the path so far
SpiralDone(s) ==
    s.accumulatedLength >= INITIAL_NODES * NODE_SPACING \/ Len(s.path) > 2000

\* the end of one iteration: p is the candidate at radius r, dist its
\* distance from the last point kept
SpiralKeep(s, r, p, dist) ==
    [angle |-> s.angle + MulDiv(PathSpacing, 1000, 2 * Max(r, 200)),
     accumulatedLength |-> IF dist >= PathSpacing THEN s.accumulatedLength + dist
                           ELSE s.accumulatedLength,
     lastPoint |-> IF dist >= PathSpacing THEN p ELSE s.lastPoint,
     path |-> IF dist >= PathSpacing THEN Append(s.path, p) ELSE s.path]

SpiralPoint(start, s, r) ==
    With([x |-> start.x + Fx(Cos(s.angle), r), y |-> start.y,
          z |-> start.z + Fx(Sin(s.angle), r)],
         LAMBDA p : SpiralKeep(s, r, p,
                               Length3(p.x - s.lastPoint.x, 0, p.z - s.lastPoint.z)))

\* one iteration; "coilGap / (2 * Math.PI) * angle"
SpiralStep(start, s) ==
    SpiralPoint(start, s, MulDiv(MulDiv(CIRCLE_RADIUS, 22, 10), s.angle, 6283))

\* up to n iterations
RECURSIVE SpiralRun(_, _, _)
SpiralRun(start, s, n) ==
    IF n = 0 \/ SpiralDone(s) THEN s
    ELSE SpiralRun(start, SpiralStep(start, s), n - 1)

\* the whole loop, eight iterations at a time
RECURSIVE Spiral(_, _)
Spiral(start, s) ==
    IF SpiralDone(s) THEN s.path ELSE Spiral(start, SpiralRun(start, s, 8))

\* new Snake(startPos), startPos in milli-units
NewSnake(start) ==
    [x |-> start.x * Fine, z |-> start.z * Fine,
     path |-> Spiral(start, [angle |-> 0, accumulatedLength |-> 0,
                             lastPoint |-> start, path |-> << start >>])]

\* new Audio(): no context yet, nothing playing
NewAudio ==
    [ctx |-> "none", isPlaying |-> FALSE, bgOscillators |-> 0,
     awaiting |-> << >>, timers |-> << >>, chains |-> 0, notes |-> 0,
     starts |-> 0]

\* new Game(): "new Snake(new THREE.Vector3(0, 0.5, 0))", "new Audio()"
GameInit ==
    /\ snake = NewSnake([x |-> 0, y |-> 500, z |-> 0])
    /\ calls = [frames |-> 0, trace |-> << >>]
    /\ musicStarted = FALSE
    /\ audio = NewAudio

\* variant: the snake-proxy pool is not emptied
ResizeToKeepsProxies(aspect) ==
    /\ depth' = FIXED_SIDE
    /\ width' = Fx(FIXED_SIDE, aspect)
    /\ organisms' = << >>
    /\ nextOrganismId' = 0
    /\ fruits' = << >>
    /\ world' = WallsOf(Fx(FIXED_SIDE, aspect), FIXED_SIDE)
    /\ nextBodyId' = 5
    /\ snakeBodies' = snakeBodies
    /\ wallBodies' = << 1, 2, 3, 4 >>

\* the state Grid.resize(aspect) leaves behind
ResizeTo(aspect) ==
    /\ depth' = FIXED_SIDE
    /\ width' = Fx(FIXED_SIDE, aspect)
    /\ organisms' = << >>
    /\ nextOrganismId' = 0
    /\ fruits' = << >>
    /\ world' = WallsOf(Fx(FIXED_SIDE, aspect), FIXED_SIDE)
    /\ nextBodyId' = 5
    /\ snakeBodies' = << >>
    /\ wallBodies' = << 1, 2, 3, 4 >>

Resize(aspect) ==
    /\ ResizeTo(aspect)
    /\ ret' = [op |-> "resize", aspect |-> aspect]
    /\ log' = << >>
    /\ UNCHANGED <<uTime, frame, gameVars>>

\* new Grid(aspectRatio)
Init ==
    \E aspect \in Aspects :
        /\ depth = FIXED_SIDE
        /\ width = Fx(FIXED_SIDE, aspect)
        /\ organisms = << >>
        /\ nextOrganismId = 0
        /\ fruits = << >>
        /\ world = WallsOf(Fx(FIXED_SIDE, aspect), FIXED_SIDE)
        /\ nextBodyId = 5
        /\ snakeBodies = << >>
        /\ wallBodies = << 1, 2, 3, 4 >>
        /\ uTime = 0
        /\ ret = NoCall
        /\ log = << >>
        /\ frame = Idle
        /\ GameInit

-----------------------------------------------------------------------------
\* Grid.isPositionBlocked

\* the test of one body b against the query circle (x, z, radius)
\* variant: snake proxies are not skipped
BodyBlocksSnakeToo(b, x, z, radius) ==
    IF b.label = "fruit" THEN FALSE
    ELSE IF b.circleRadius # 0
         THEN DistLess(x - b.x, 0, z - b.y, radius + b.circleRadius)
         ELSE BoundsOverlap(Bounds(b),
                            [minx |-> x - radius, maxx |-> x + radius,
                             miny |-> z - radius, maxy |-> z + radius])

BodyBlocks(b, x, z, radius) ==
    IF b.label = "snake" THEN FALSE
    ELSE IF b.label = "fruit" THEN FALSE
    ELSE IF b.circleRadius # 0
         THEN DistLess(x - b.x, 0, z - b.y, radius + b.circleRadius)
         ELSE BoundsOverlap(Bounds(b),
                            [minx |-> x - radius, maxx |-> x + radius,
                             miny |-> z - radius, maxy |-> z + radius])

\* variant: the right edge is not compared
OutOfBoundsNoRightEdge(w, d, x, z, radius) ==
    LET halfW == w \div 2
        halfD == d \div 2
    IN  \/ x < -halfW + radius
        \/ z < -halfD + radius
        \/ z > halfD - radius

OutOfBounds(w, d, x, z, radius) ==
    LET halfW == w \div 2
        halfD == d \div 2
    IN  \/ x < -halfW + radius
        \/ x > halfW - radius
        \/ z < -halfD + radius
        \/ z > halfD - radius

isPositionBlocked(wd, w, d, x, z, radius) ==
    IF OutOfBounds(w, d, x, z, radius) THEN TRUE
    ELSE \E i \in DOMAIN wd : BodyBlocks(wd[i], x, z, radius)

-----------------------------------------------------------------------------
\* Grid.update works on the fields below; each phase maps such a record to
\* the next one.  rk counts the Math.random() draws made so far by the call.

GridState ==
    [world |-> world, nextBodyId |-> nextBodyId, snakeBodies |-> snakeBodies,
     organisms |-> organisms, nextOrganismId |-> nextOrganismId,
     fruits |-> fruits, rk |-> 0, log |-> << >>]

\* --- 1. Matter.Engine.update ---
\* would the circle of body id, moved to (nx, ny), penetrate a static
\* non-sensor body (a wall or a snake proxy)?
Penetrates(w, id, nx, ny) ==
    \E j \in DOMAIN w \ {id} :
        /\ w[j].isStatic
        /\ ~w[j].isSensor
        /\ IF w[j].circleRadius # 0
           THEN DistLess(nx - w[j].x, 0, ny - w[j].y,
                         w[id].circleRadius + w[j].circleRadius)
           ELSE BoundsOverlap(Bounds(w[j]),
                    [minx |-> nx - w[id].hw, maxx |-> nx + w[id].hw,
                     miny |-> ny - w[id].hh, maxy |-> ny + w[id].hh])

\* every dynamic body advances by its velocity (velocity is per update);
\* the collision resolver keeps it out of static bodies
EngineStep(g) ==
    LET w == g.world
        moved(i) ==
            IF w[i].isStatic \/ Penetrates(w, i, w[i].x + w[i].vx, w[i].y + w[i].vy)
            THEN w[i]
            ELSE [w[i] EXCEPT !.x = @ + w[i].vx, !.y = @ + w[i].vy]
    IN  [g EXCEPT !.world = Strict([i \in DOMAIN w |-> moved(i)]),
                  !.log = Append(@, "physics")]

\* --- 2. Grid.updateSnakePhysics / ensureSnakeBody ---
ensureSnakeBody(g, index, x, z) ==
    IF index >= Len(g.snakeBodies)
    THEN [g EXCEPT !.world = WorldAdd(@, g.nextBodyId,
                                 Circle(x, z, SnakeProxyRadius, "snake", TRUE, FALSE)),
                   !.snakeBodies = Append(@, g.nextBodyId),
                   !.nextBodyId = @ + 1]
    ELSE [g EXCEPT !.world = SetPosition(@, g.snakeBodies[index + 1], x, z)]

\* the walk over snakePath[i], i >= 1 (0-based i = position i + 1 here)
\* variant: "lastPos = p" is left out, every sample is measured from the head
RECURSIVE WalkPathFromHead(_, _, _, _, _)
WalkPathFromHead(g, path, i, lastPos, bodyIdx) ==
    IF i > Len(path) THEN [g |-> g, bodyIdx |-> bodyIdx]
    ELSE LET p == path[i]
         IN  IF ~DistLess(p.x - lastPos.x, p.y - lastPos.y, p.z - lastPos.z,
                          SnakeProxySeparation)
             THEN WalkPathFromHead(ensureSnakeBody(g, bodyIdx, p.x, p.z), path, i + 1,
                           lastPos, bodyIdx + 1)
             ELSE WalkPathFromHead(g, path, i + 1, lastPos, bodyIdx)

RECURSIVE WalkPath(_, _, _, _, _)
WalkPath(g, path, i, lastPos, bodyIdx) ==
    IF i > Len(path) THEN [g |-> g, bodyIdx |-> bodyIdx]
    ELSE LET p == path[i]
         IN  IF ~DistLess(p.x - lastPos.x, p.y - lastPos.y, p.z - lastPos.z,
                          SnakeProxySeparation)
             THEN WalkPath(ensureSnakeBody(g, bodyIdx, p.x, p.z), path, i + 1,
                           p, bodyIdx + 1)
             ELSE WalkPath(g, path, i + 1, lastPos, bodyIdx)

\* variant: the trailing loop starts one slot late
ParkUnusedSkipsFirst(g, bodyIdx) ==
    LET w    == g.world
        pool == g.snakeBodies
    IN  [g EXCEPT !.world =
            Strict([i \in DOMAIN w |->
                IF \E s \in (bodyIdx + 2)..Len(pool) : pool[s] = i
                THEN [w[i] EXCEPT !.x = ParkCoordinate, !.y = ParkCoordinate]
                ELSE w[i]])]

\* the trailing loop: park the unused pool members
ParkUnused(g, bodyIdx) ==
    LET w    == g.world
        pool == g.snakeBodies
    IN  [g EXCEPT !.world =
            Strict([i \in DOMAIN w |->
                IF \E s \in (bodyIdx + 1)..Len(pool) : pool[s] = i
                THEN [w[i] EXCEPT !.x = ParkCoordinate, !.y = ParkCoordinate]
                ELSE w[i]])]

updateSnakePhysics(g, path) ==
    With(IF Len(path) > 0
         THEN WalkPath(ensureSnakeBody(g, 0, path[1].x, path[1].z), path, 2,
                       path[1], 1)
         ELSE [g |-> g, bodyIdx |-> 0],
         LAMBDA walked :
            [ParkUnused(walked.g, walked.bodyIdx) EXCEPT !.log = Append(@, "proxy")])

\* --- 3. Grid.spawnOrganism ---
\* BlobNode
Node(x, z, r, parentIndex, dist, wigglePhase) ==
    [x |-> x, z |-> z, r |-> r, parentIndex |-> parentIndex, dist |-> dist,
     wigglePhase |-> wigglePhase]

\* variant: every child hangs on the node pushed before it (a chain)
ChildNodeChained(seed, k, i, count, hx, hz) ==
    LET angle == MulDiv(i, 6283, count) + (Rnd(seed, k) - 500)
        dist  == 600 + Fx(Rnd(seed, k + 1), 600)
        r     == 500 + Fx(Rnd(seed, k + 2), 400)
    IN  Node(hx + Fx(Cos(angle), dist), hz + Fx(Sin(angle), dist), r, i, dist,
             Rnd(seed, k + 3) * 10)

\* the i-th child node (i = 0 .. count-1) around the head at (hx, hz); its
\* four draws start at index k
ChildNode(seed, k, i, count, hx, hz) ==
    LET angle == MulDiv(i, 6283, count) + (Rnd(seed, k) - 500)
        dist  == 600 + Fx(Rnd(seed, k + 1), 600)
        r     == 500 + Fx(Rnd(seed, k + 2), 400)
    IN  Node(hx + Fx(Cos(angle), dist), hz + Fx(Sin(angle), dist), r, 0, dist,
             Rnd(seed, k + 3) * 10)

\* the organism created at (rx, rz); its draws start at index k (after the
\* two draws of the position) and its bodies take identities from id on
NewOrganism(seed, k, rx, rz, id, orgId) ==
    LET headNode == Node(rx, rz, 600 + Fx(Rnd(seed, k), 400), -1, 0,
                         Rnd(seed, k + 1) * 10)
        count    == FollowerBase + (Rnd(seed, k + 2) * 4) \div 1000
        kEnd     == k + 3 + 4 * count
    IN  With(Strict([j \in 1..(count + 1) |->
                IF j = 1 THEN headNode
                ELSE ChildNode(seed, k + 3 + 4 * (j - 2), j - 2, count, rx, rz)]),
             LAMBDA nodes :
        [org |->
            [id |-> orgId,
             headBody |-> id,
             segmentBodies |-> Strict([j \in 1..(count + 1) |-> id + j - 1]),
             nodes |-> nodes,
             angle |-> Fx(Rnd(seed, kEnd), 6283),
             speed |-> 150 + Fx(Rnd(seed, kEnd + 1), 150)],
         bodies |-> Strict([j \in 1..(count + 1) |->
                       IF j = 1
                       THEN Circle(rx, rz, HeadBodyRadius, "org_head", FALSE, FALSE)
                       ELSE Circle(nodes[j].x, nodes[j].z, (nodes[j].r * 7) \div 10,
                                   "org_tail", TRUE, TRUE)]),
         draws |-> 3 + 4 * count + 3])

\* variant: ten failed attempts still consume an organism id
RECURSIVE SpawnOrganismAttemptBurnsId(_, _, _, _, _, _)
SpawnOrganismAttemptBurnsId(g, w, d, path, seed, attempt) ==
    IF attempt >= SpawnAttempts THEN [g EXCEPT !.nextOrganismId = @ + 1]
    ELSE
      LET rx == Fx(Rnd(seed, g.rk) - 500, w - SpawnInset)
          rz == Fx(Rnd(seed, g.rk + 1) - 500, d - SpawnInset)
      IN  IF /\ Len(path) > 0
             /\ DistLess(path[1].x - rx, path[1].y - 0, path[1].z - rz,
                         SpawnClearance)
          THEN SpawnOrganismAttemptBurnsId([g EXCEPT !.rk = @ + 2], w, d, path,
                                           seed, attempt + 1)
          ELSE
            With(NewOrganism(seed, g.rk + 2, rx, rz, g.nextBodyId,
                             g.nextOrganismId),
                 LAMBDA new :
                [g EXCEPT
                   !.world = g.world @@
                             [i \in g.nextBodyId .. (g.nextBodyId + Len(new.bodies) - 1) |->
                                 new.bodies[i - g.nextBodyId + 1]],
                   !.nextBodyId = @ + Len(new.bodies),
                   !.organisms = Append(@, new.org),
                   !.nextOrganismId = @ + 1,
                   !.rk = @ + 2 + new.draws])

RECURSIVE SpawnOrganismAttempt(_, _, _, _, _, _)
SpawnOrganismAttempt(g, w, d, path, seed, attempt) ==
    IF attempt >= SpawnAttempts THEN g
    ELSE
      LET rx == Fx(Rnd(seed, g.rk) - 500, w - SpawnInset)
          rz == Fx(Rnd(seed, g.rk + 1) - 500, d - SpawnInset)
      IN  IF /\ Len(path) > 0
             /\ DistLess(path[1].x - rx, path[1].y - 0, path[1].z - rz,
                         SpawnClearance)
          THEN SpawnOrganismAttempt([g EXCEPT !.rk = @ + 2], w, d, path, seed,
                                    attempt + 1)
          ELSE
            With(NewOrganism(seed, g.rk + 2, rx, rz, g.nextBodyId,
                             g.nextOrganismId),
                 LAMBDA new :
                [g EXCEPT
                   !.world = g.world @@
                             [i \in g.nextBodyId .. (g.nextBodyId + Len(new.bodies) - 1) |->
                                 new.bodies[i - g.nextBodyId + 1]],
                   !.nextBodyId = @ + Len(new.bodies),
                   !.organisms = Append(@, new.org),
                   !.nextOrganismId = @ + 1,
                   !.rk = @ + 2 + new.draws])

spawnOrganism(g, w, d, path, seed) ==
    SpawnOrganismAttempt([g EXCEPT !.log = Append(@, "spawnOrganism")],
                         w, d, path, seed, 0)

\* "Check spawn"
\* variant: the pool is compared with <= and grows one past the target
OrganismPopulationOvershoot(g, w, d, path, seed) ==
    LET g1 == [g EXCEPT !.log = Append(@, "population")]
    IN  IF Len(g1.organisms) <= TARGET_ORGANISM_COUNT
        THEN spawnOrganism(g1, w, d, path, seed)
        ELSE g1

OrganismPopulation(g, w, d, path, seed) ==
    LET g1 == [g EXCEPT !.log = Append(@, "population")]
    IN  IF Len(g1.organisms) < TARGET_ORGANISM_COUNT
        THEN spawnOrganism(g1, w, d, path, seed)
        ELSE g1

\* --- Grid.steerOrganism ---
\* the rectangle Matter.Query.ray sweeps: length LookAhead and width RayWidth
\* from (sx, sy) along angle, given by its centre, direction and bounds
Ray(sx, sy, angle) ==
    With(Cos(angle), LAMBDA dx :
    With(Sin(angle), LAMBDA dy :
        LET hl  == LookAhead \div 2
            hwd == RayWidth \div 2
            mx  == sx + Fx(dx, hl)
            my  == sy + Fx(dy, hl)
            ex  == Abs(Fx(dx, hl)) + Abs(Fx(dy, hwd))
            ey  == Abs(Fx(dy, hl)) + Abs(Fx(dx, hwd))
        IN  [dx |-> dx, dy |-> dy, mx |-> mx, my |-> my,
             minx |-> mx - ex, maxx |-> mx + ex,
             miny |-> my - ey, maxy |-> my + ey]))

\* Matter.Query.ray against one body: bounds first, then circles by their
\* distance to the rectangle and rectangles by separating axes
RayHits(b, ray) ==
    LET hl  == LookAhead \div 2
        hwd == RayWidth \div 2
        u(px, py) == Fx(px - ray.mx, ray.dx) + Fx(py - ray.my, ray.dy)
        v(px, py) == Fx(py - ray.my, ray.dx) - Fx(px - ray.mx, ray.dy)
        bb == Bounds(b)
        us == { u(bb.minx, bb.miny), u(bb.minx, bb.maxy),
                u(bb.maxx, bb.miny), u(bb.maxx, bb.maxy) }
        vs == { v(bb.minx, bb.miny), v(bb.minx, bb.maxy),
                v(bb.maxx, bb.miny), v(bb.maxx, bb.maxy) }
    IN  IF ~BoundsOverlap(bb, ray) THEN FALSE
        ELSE IF b.circleRadius # 0
        THEN DistLess(Max(Abs(u(b.x, b.y)) - hl, 0), 0,
                      Max(Abs(v(b.x, b.y)) - hwd, 0), b.circleRadius)
        ELSE /\ \E a \in us : a < hl
             /\ \E a \in us : a > -hl
             /\ \E a \in vs : a < hwd
             /\ \E a \in vs : a > -hwd

\* variant: only the organism's own bodies are filtered out
IsObstacleAnyLabel(w, org, i) ==
    /\ i # org.headBody
    /\ \A j \in 1..Len(org.segmentBodies) : org.segmentBodies[j] # i

\* the obstacle filter of steerOrganism
IsObstacle(w, org, i) ==
    /\ i # org.headBody
    /\ \A j \in 1..Len(org.segmentBodies) : org.segmentBodies[j] # i
    /\ w[i].label # "fruit"

\* variant: the velocity is computed from the heading before the turn
steerOrganismStaleVelocity(g, oi, seed) ==
    LET org   == g.organisms[oi]
        w     == g.world
        head  == w[org.headBody]
        ray   == Ray(head.x, head.y, org.angle)
        hit   == \E i \in DOMAIN w : RayHits(w[i], ray) /\ IsObstacle(w, org, i)
        rnd   == Rnd(seed, g.rk)
    IN  With(IF hit
             THEN org.angle + (IF rnd < 500 THEN 1 ELSE -1) * 1571
             ELSE org.angle + (rnd - 500) \div 10,
             LAMBDA angle :
                [g EXCEPT !.organisms[oi].angle = angle,
                          !.world = SetVelocity(@, org.headBody,
                                                Fx(Cos(org.angle), org.speed),
                                                Fx(Sin(org.angle), org.speed)),
                          !.rk = @ + 1,
                          !.log = Append(@, "steer")])

\* steerOrganism(org) for org = organisms[oi]; one draw
steerOrganism(g, oi, seed) ==
    LET org   == g.organisms[oi]
        w     == g.world
        head  == w[org.headBody]
        ray   == Ray(head.x, head.y, org.angle)
        hit   == \E i \in DOMAIN w : RayHits(w[i], ray) /\ IsObstacle(w, org, i)
        rnd   == Rnd(seed, g.rk)
    IN  With(IF hit
             THEN org.angle + (IF rnd < 500 THEN 1 ELSE -1) * 1571
             ELSE org.angle + (rnd - 500) \div 10,
             LAMBDA angle :
                [g EXCEPT !.organisms[oi].angle = angle,
                          !.world = SetVelocity(@, org.headBody,
                                                Fx(Cos(angle), org.speed),
                                                Fx(Sin(angle), org.speed)),
                          !.rk = @ + 1,
                          !.log = Append(@, "steer")])

\* "Sync Head Node (Node 0) with Head Body"
\* variant: the head node is left where it was
SyncHeadStale(g, oi) ==
    [g EXCEPT !.log = Append(@, "sync")]

SyncHead(g, oi) ==
    LET head == g.world[g.organisms[oi].headBody]
    IN  [g EXCEPT !.organisms[oi].nodes[1].x = head.x,
                  !.organisms[oi].nodes[1].z = head.y,
                  !.log = Append(@, "sync")]

\* variant: the pull is subtracted, pushing the node away from its parent
RelaxNodePush(node, parent, t) ==
    LET tx == parent.x - node.x
        tz == parent.z - node.z
        currentDist == Length3(tx, 0, tz)
        pull == Fx(currentDist - node.dist, Stiffness)
        px == IF currentDist > node.dist THEN MulDiv(tx, pull, currentDist) ELSE 0
        pz == IF currentDist > node.dist THEN MulDiv(tz, pull, currentDist) ELSE 0
        wiggleX == Fx(Sin(t * 4 + node.wigglePhase), WiggleAmplitude)
        wiggleZ == Fx(Cos(t * 3 + node.wigglePhase), WiggleAmplitude)
    IN  [node EXCEPT !.x = @ - px + wiggleX, !.z = @ - pz + wiggleZ]

\* one follower node after the spring pull and the wiggle, at time t
RelaxNode(node, parent, t) ==
    LET tx == parent.x - node.x
        tz == parent.z - node.z
        currentDist == Length3(tx, 0, tz)
        pull == Fx(currentDist - node.dist, Stiffness)
        px == IF currentDist > node.dist THEN MulDiv(tx, pull, currentDist) ELSE 0
        pz == IF currentDist > node.dist THEN MulDiv(tz, pull, currentDist) ELSE 0
        wiggleX == Fx(Sin(t * 4 + node.wigglePhase), WiggleAmplitude)
        wiggleZ == Fx(Cos(t * 3 + node.wigglePhase), WiggleAmplitude)
    IN  [node EXCEPT !.x = @ + px + wiggleX, !.z = @ + pz + wiggleZ]

\* the loop over nodes[i], i >= 1 (position i + 1 here): every node reads its
\* parent from the nodes as updated so far, and its collider follows it
RECURSIVE RelaxNodes(_, _, _, _)
RelaxNodes(nw, segs, j, t) ==
    IF j > Len(nw.nodes) THEN nw
    ELSE With(RelaxNode(nw.nodes[j], nw.nodes[nw.nodes[j].parentIndex + 1], t),
              LAMBDA node :
                RelaxNodes([nodes |-> [nw.nodes EXCEPT ![j] = node],
                            world |-> SetPosition(nw.world, segs[j], node.x, node.z)],
                           segs, j + 1, t))

\* "Update Body Nodes (Soft Body / Chain Logic)"
RelaxOrganism(g, oi, t) ==
    With(RelaxNodes([nodes |-> g.organisms[oi].nodes, world |-> g.world],
                    g.organisms[oi].segmentBodies, 2, t),
         LAMBDA nw :
            [g EXCEPT !.organisms[oi].nodes = nw.nodes,
                      !.world = nw.world,
                      !.log = Append(@, "relax")])

\* the sequence s without its element at position i (Array.splice(i, 1))
Splice(s, i) == SubSeq(s, 1, i - 1) \o SubSeq(s, i + 1, Len(s))

\* variant: a loop that rotates the leader, the head and the last follower
\* exchanging their radii before the relaxation
RECURSIVE OrganismPassRotating(_, _, _, _)
OrganismPassRotating(g, oi, seed, t) ==
    IF oi < 1 THEN g
    ELSE IF Len(g.organisms[oi].nodes) = 0
    THEN OrganismPassRotating([g EXCEPT !.world = WorldRemove(@, g.organisms[oi].headBody),
                                        !.organisms = Splice(@, oi)],
                              oi - 1, seed, t)
    ELSE LET g1   == SyncHead(steerOrganism(g, oi, seed), oi)
             last == Len(g1.organisms[oi].nodes)
             g2   == [g1 EXCEPT !.organisms[oi].nodes[1].r = g1.organisms[oi].nodes[last].r,
                                !.organisms[oi].nodes[last].r = g1.organisms[oi].nodes[1].r]
         IN  OrganismPassRotating(RelaxOrganism(g2, oi, t), oi - 1, seed, t)

\* variant: the prune test also catches every organism but the newest
RECURSIVE OrganismPassPrunesOlder(_, _, _, _)
OrganismPassPrunesOlder(g, oi, seed, t) ==
    IF oi < 1 THEN g
    ELSE IF Len(g.organisms[oi].nodes) = 0 \/ oi < Len(g.organisms)
    THEN OrganismPassPrunesOlder([g EXCEPT !.world = WorldRemove(@, g.organisms[oi].headBody),
                                           !.organisms = Splice(@, oi)],
                                 oi - 1, seed, t)
    ELSE OrganismPassPrunesOlder(RelaxOrganism(SyncHead(steerOrganism(g, oi, seed), oi), oi, t),
                                 oi - 1, seed, t)

\* --- 4. the loop over the organisms, from the last one to the first ---
RECURSIVE OrganismPass(_, _, _, _)
OrganismPass(g, oi, seed, t) ==
    IF oi < 1 THEN g
    ELSE IF Len(g.organisms[oi].nodes) = 0
    THEN OrganismPass([g EXCEPT !.world = WorldRemove(@, g.organisms[oi].headBody),
                                !.organisms = Splice(@, oi)],
                      oi - 1, seed, t)
    ELSE OrganismPass(RelaxOrganism(SyncHead(steerOrganism(g, oi, seed), oi), oi, t),
                      oi - 1, seed, t)

\* --- 5. Grid.spawnFruit ---
\* variant: after ten occupied candidates the fruit is put at the centre
RECURSIVE SpawnFruitAttemptForced(_, _, _, _, _)
SpawnFruitAttemptForced(g, w, d, seed, i) ==
    IF i >= SpawnAttempts
    THEN [g EXCEPT
            !.world = WorldAdd(@, g.nextBodyId,
                          Circle(0, 0, Fx(500, Fx(FRUIT_SIZE, 800)),
                                 "fruit", TRUE, TRUE)),
            !.fruits = Append(@, [x |-> 0, z |-> 0, body |-> g.nextBodyId]),
            !.nextBodyId = @ + 1]
    ELSE
      LET rx == Fx(Rnd(seed, g.rk) - 500, w - FruitInset)
          rz == Fx(Rnd(seed, g.rk + 1) - 500, d - FruitInset)
          region == [minx |-> rx - FruitProbeRadius, maxx |-> rx + FruitProbeRadius,
                     miny |-> rz - FruitProbeRadius, maxy |-> rz + FruitProbeRadius]
      IN  IF \E b \in DOMAIN g.world : BoundsOverlap(Bounds(g.world[b]), region)
          THEN SpawnFruitAttemptForced([g EXCEPT !.rk = @ + 2], w, d, seed, i + 1)
          ELSE [g EXCEPT
                  !.world = WorldAdd(@, g.nextBodyId,
                                Circle(rx, rz, Fx(500, Fx(FRUIT_SIZE, 800)),
                                       "fruit", TRUE, TRUE)),
                  !.fruits = Append(@, [x |-> rx, z |-> rz, body |-> g.nextBodyId]),
                  !.nextBodyId = @ + 1,
                  !.rk = @ + 3]

RECURSIVE SpawnFruitAttempt(_, _, _, _, _)
SpawnFruitAttempt(g, w, d, seed, i) ==
    IF i >= SpawnAttempts THEN g
    ELSE
      LET rx == Fx(Rnd(seed, g.rk) - 500, w - FruitInset)
          rz == Fx(Rnd(seed, g.rk + 1) - 500, d - FruitInset)
          region == [minx |-> rx - FruitProbeRadius, maxx |-> rx + FruitProbeRadius,
                     miny |-> rz - FruitProbeRadius, maxy |-> rz + FruitProbeRadius]
      IN  IF \E b \in DOMAIN g.world : BoundsOverlap(Bounds(g.world[b]), region)
          THEN SpawnFruitAttempt([g EXCEPT !.rk = @ + 2], w, d, seed, i + 1)
          ELSE [g EXCEPT
                  !.world = WorldAdd(@, g.nextBodyId,
                                Circle(rx, rz, Fx(500, Fx(FRUIT_SIZE, 800)),
                                       "fruit", TRUE, TRUE)),
                  !.fruits = Append(@, [x |-> rx, z |-> rz, body |-> g.nextBodyId]),
                  !.nextBodyId = @ + 1,
                  !.rk = @ + 3]

spawnFruit(g, w, d, seed) ==
    SpawnFruitAttempt([g EXCEPT !.log = Append(@, "spawnFruit")], w, d, seed, 0)

\* variant: a frame below the target spawns two fruit
FruitPopulationTwice(g, w, d, seed) ==
    LET g1 == [g EXCEPT !.log = Append(@, "fruit")]
    IN  IF Len(g1.fruits) < FRUIT_TARGET_COUNT
        THEN With(spawnFruit(g1, w, d, seed),
                  LAMBDA g2 : spawnFruit(g2, w, d, seed))
        ELSE g1

\* "Manage Fruit"
FruitPopulation(g, w, d, seed) ==
    LET g1 == [g EXCEPT !.log = Append(@, "fruit")]
    IN  IF Len(g1.fruits) < FRUIT_TARGET_COUNT
        THEN spawnFruit(g1, w, d, seed)
        ELSE g1

\* variant: fruit maintenance run before the organisms are stepped
UpdateResultFruitFirst(g, w, d, path, seed, t) ==
    LET g1 == EngineStep(g)
        g2 == updateSnakePhysics(g1, path)
        g3 == OrganismPopulation(g2, w, d, path, seed)
    IN  With(FruitPopulation(g3, w, d, seed),
             LAMBDA g4 : OrganismPass(g4, Len(g4.organisms), seed, t))

\* --- Grid.update(dt, snakePath) ---
\* the record after the whole call; t is uTime after "uTime.value += dt"
UpdateResult(g, w, d, path, seed, t) ==
    LET g1 == EngineStep(g)
        g2 == updateSnakePhysics(g1, path)
    IN  With(OrganismPopulation(g2, w, d, path, seed),
             LAMBDA g3 :
                FruitPopulation(OrganismPass(g3, Len(g3.organisms), seed, t),
                                w, d, seed))

\* the player's recorded path handed to update (most recent first); the
\* snake moves in the plane y = 0.5
P(x, z) == [x |-> x, y |-> 500, z |-> z]

PathAway == << P(6000, 6500) >>

PathCentre == << P(0, 0), P(-100, 0), P(-900, 0), P(-1000, 0) >>

\* Grid.update(dt, snakePath), with the draws of Math.random() given by seed;
\* maxTime caps uTime
Update(maxTime, dt, path, seed) ==
    /\ uTime + dt <= maxTime
    /\ uTime' = uTime + dt
    /\ \E g \in { UpdateResult(GridState, width, depth, path, seed, uTime + dt) } :
           /\ world' = g.world
           /\ nextBodyId' = g.nextBodyId
           /\ snakeBodies' = g.snakeBodies
           /\ organisms' = g.organisms
           /\ nextOrganismId' = g.nextOrganismId
           /\ fruits' = g.fruits
           /\ log' = g.log
    /\ ret' = [op |-> "update", dt |-> dt]
    /\ UNCHANGED <<width, depth, wallBodies, frame, gameVars>>

-----------------------------------------------------------------------------
\* Grid.handleFruitCollection

\* "dx * dx + dz * dz < (radius + 0.5) ** 2"
FruitInRange(f, x, z, radius) ==
    DistLess(x - f.x, 0, z - f.z, radius + FruitCollisionRadius)

\* variant: the loop runs from the end of the pool
RECURSIVE LastFruit(_, _, _, _, _)
LastFruit(fs, i, x, z, radius) ==
    IF i > Len(fs) THEN 0
    ELSE IF LastFruit(fs, i + 1, x, z, radius) # 0
         THEN LastFruit(fs, i + 1, x, z, radius)
    ELSE IF FruitInRange(fs[i], x, z, radius) THEN i
    ELSE 0

\* index of the fruit the loop stops at, 0 when it runs to the end
RECURSIVE FirstFruit(_, _, _, _, _)
FirstFruit(fs, i, x, z, radius) ==
    IF i > Len(fs) THEN 0
    ELSE IF FruitInRange(fs[i], x, z, radius) THEN i
    ELSE FirstFruit(fs, i + 1, x, z, radius)

\* points the player-movement loop asks about: fixed points of the arena ...
FixedPoints ==
    { <<0, 0>>, <<10400, 0>>, <<-9600, 0>>, <<0, 9600>>, <<3000, -9501>>, <<40000, 0>> }

\* ... and points at the first fruit, beside the first organism and at the
\* first snake proxy
StatePoints ==
    { <<fruits[i].x, fruits[i].z>> : i \in 1..Min(1, Len(fruits)) }
    \cup { <<world[organisms[i].headBody].x + 900, world[organisms[i].headBody].y>> :
             i \in 1..Min(1, Len(organisms)) }
    \cup { <<world[snakeBodies[i]].x, world[snakeBodies[i]].y>> :
             i \in 1..Min(1, Len(snakeBodies)) }

\* the radius of the snake head, and a sweep as wide as the arena
Radii == { 500, 15000 }

\* is this call the immediate repetition of the previous call?
IsRepeat(x, z, radius) ==
    /\ ret.op = "collect"
    /\ ret.x = x
    /\ ret.z = z
    /\ ret.radius = radius

\* variant: the fruit leaves the pool but its body stays in the world
HandleFruitCollectionKeepsBody(x, z, radius) ==
    LET i == FirstFruit(fruits, 1, x, z, radius)
    IN  /\ IF i # 0
           THEN /\ world' = world
                /\ fruits' = Splice(fruits, i)
           ELSE UNCHANGED <<world, fruits>>
        /\ ret' = [op |-> "collect", x |-> x, z |-> z, radius |-> radius,
                   result |-> (i # 0),
                   inRange |-> Cardinality({j \in 1..Len(fruits) :
                                   FruitInRange(fruits[j], x, z, radius)}),
                   again |-> IsRepeat(x, z, radius),
                   prevResult |-> IsRepeat(x, z, radius) /\ ret.result,
                   prevInRange |-> IF IsRepeat(x, z, radius) THEN ret.inRange ELSE 0]
        /\ UNCHANGED <<width, depth, nextBodyId, wallBodies, snakeBodies,
                       organisms, nextOrganismId, uTime, log, frame, gameVars>>

\* variant: the body is removed but the fruit stays in the pool
HandleFruitCollectionKeepsFruit(x, z, radius) ==
    LET i == FirstFruit(fruits, 1, x, z, radius)
    IN  /\ IF i # 0
           THEN /\ world' = WorldRemove(world, fruits[i].body)
                /\ fruits' = fruits
           ELSE UNCHANGED <<world, fruits>>
        /\ ret' = [op |-> "collect", x |-> x, z |-> z, radius |-> radius,
                   result |-> (i # 0),
                   inRange |-> Cardinality({j \in 1..Len(fruits) :
                                   FruitInRange(fruits[j], x, z, radius)}),
                   again |-> IsRepeat(x, z, radius),
                   prevResult |-> IsRepeat(x, z, radius) /\ ret.result,
                   prevInRange |-> IF IsRepeat(x, z, radius) THEN ret.inRange ELSE 0]
        /\ UNCHANGED <<width, depth, nextBodyId, wallBodies, snakeBodies,
                       organisms, nextOrganismId, uTime, log, frame, gameVars>>

\* ret records the call, its result, the number of fruits that were in range
\* and, for an immediate repetition, the same of the call before
HandleFruitCollection(x, z, radius) ==
    LET i == FirstFruit(fruits, 1, x, z, radius)
    IN  /\ IF i # 0
           THEN /\ world' = WorldRemove(world, fruits[i].body)
                /\ fruits' = Splice(fruits, i)
           ELSE UNCHANGED <<world, fruits>>
        /\ ret' = [op |-> "collect", x |-> x, z |-> z, radius |-> radius,
                   result |-> (i # 0),
                   inRange |-> Cardinality({j \in 1..Len(fruits) :
                                   FruitInRange(fruits[j], x, z, radius)}),
                   again |-> IsRepeat(x, z, radius),
                   prevResult |-> IsRepeat(x, z, radius) /\ ret.result,
                   prevInRange |-> IF IsRepeat(x, z, radius) THEN ret.inRange ELSE 0]
        /\ UNCHANGED <<width, depth, nextBodyId, wallBodies, snakeBodies,
                       organisms, nextOrganismId, uTime, log, frame, gameVars>>

IsPositionBlocked(x, z, radius) ==
    /\ ret' = [op |-> "blocked", x |-> x, z |-> z, radius |-> radius,
               result |-> isPositionBlocked(world, width, depth, x, z, radius)]
    /\ UNCHANGED <<width, depth, world, nextBodyId, wallBodies, snakeBodies,
                   organisms, nextOrganismId, fruits, uTime, log, frame, gameVars>>

-----------------------------------------------------------------------------
\* Spec: the life of one Grid over MaxFrames frames

Next ==
    \/ \E aspect \in Aspects : Resize(aspect)
    \/ \E in \in { <<PathAway, <<137, 619>> >>, <<PathCentre, <<910, 277>> >> } :
          Update(MaxFrames * 16, 16, in[1], in[2])
    \/ \E p \in { <<0, 0>> }, radius \in { 500 } :
          HandleFruitCollection(p[1], p[2], radius)

Spec == Init /\ [][Next]_vars

\* SpecQuery: the first frames of a Grid, with the queries of the
\* player-movement loop
NextQuery ==
    \/ \E aspect \in Aspects : Resize(aspect)
    \/ \E path \in { << >>, PathCentre }, seed \in Seeds :
          Update(MaxQueryFrames * 16, 16, path, seed)
    \/ \E p \in FixedPoints \cup StatePoints, radius \in Radii :
          HandleFruitCollection(p[1], p[2], radius)
    \/ \E p \in FixedPoints \cup StatePoints, radius \in Radii :
          IsPositionBlocked(p[1], p[2], radius)

SpecQuery == Init /\ [][NextQuery]_vars

\* SpecRelax: one organism as spawnOrganism creates it, relaxed frame after
\* frame while its head body stays where it is
InitRelax ==
    \E aspect \in Aspects, seed \in Seeds :
        \E g \in { spawnOrganism(
                       [world |-> WallsOf(Fx(FIXED_SIDE, aspect), FIXED_SIDE),
                        nextBodyId |-> 5, snakeBodies |-> << >>,
                        organisms |-> << >>, nextOrganismId |-> 0,
                        fruits |-> << >>, rk |-> 0, log |-> << >>],
                       Fx(FIXED_SIDE, aspect), FIXED_SIDE, << >>, seed) } :
            /\ depth = FIXED_SIDE
            /\ width = Fx(FIXED_SIDE, aspect)
            /\ organisms = g.organisms
            /\ nextOrganismId = g.nextOrganismId
            /\ fruits = << >>
            /\ world = g.world
            /\ nextBodyId = g.nextBodyId
            /\ snakeBodies = << >>
            /\ wallBodies = << 1, 2, 3, 4 >>
            /\ uTime = 0
            /\ ret = NoCall
            /\ log = << >>
            /\ frame = Idle
            /\ GameInit

\* the head sync and the chain logic of one frame for every organism
RECURSIVE RelaxPass(_, _, _)
RelaxPass(g, oi, t) ==
    IF oi < 1 THEN g
    ELSE RelaxPass(RelaxOrganism(SyncHead(g, oi), oi, t), oi - 1, t)

RelaxFrame(dt) ==
    /\ uTime + dt <= MaxRelaxFrames * 16
    /\ uTime' = uTime + dt
    /\ \E g \in { RelaxPass(GridState, Len(organisms), uTime + dt) } :
           /\ world' = g.world
           /\ organisms' = g.organisms
           /\ log' = g.log
    /\ ret' = [op |-> "relax", dt |-> dt]
    /\ UNCHANGED <<width, depth, nextBodyId, wallBodies, snakeBodies,
                   nextOrganismId, fruits, frame, gameVars>>

NextRelax == \E dt \in { 16 } : RelaxFrame(dt)

SpecRelax == InitRelax /\ [][NextRelax]_vars

-----------------------------------------------------------------------------
\* Grid.update taken one phase at a time.  frame holds the position of the
\* call in flight: pc names the phase that runs next, oi the organism the
\* backward loop is at, rk the Math.random() draws made so far; path, seed
\* and dt are the arguments of the call.

\* the fields Grid.update works on, in the middle of a call
FrameState == [GridState EXCEPT !.rk = frame.rk, !.log = log]

\* the assignments a phase makes to the fields of the grid
Commit(g) ==
    /\ world' = g.world
    /\ nextBodyId' = g.nextBodyId
    /\ snakeBodies' = g.snakeBodies
    /\ organisms' = g.organisms
    /\ nextOrganismId' = g.nextOrganismId
    /\ fruits' = g.fruits
    /\ log' = g.log

\* the phase after the loop body has finished with organism oi
AfterOrganism(oi) == IF oi > 1 THEN "steer" ELSE "fruit"

\* the animation-frame callback enters Grid.update: "uTime.value += dt"
BeginUpdate(maxTime, dt, path, seed) ==
    /\ frame.pc = "idle"
    /\ uTime + dt <= maxTime
    /\ uTime' = uTime + dt
    /\ frame' = [pc |-> "physics", oi |-> 0, rk |-> 0, path |-> path,
                 seed |-> seed, dt |-> dt]
    /\ ret' = [op |-> "update", dt |-> dt]
    /\ log' = << >>
    /\ UNCHANGED <<width, depth, world, nextBodyId, wallBodies, snakeBodies,
                   organisms, nextOrganismId, fruits, gameVars>>

\* "Matter.Engine.update(this.engine, dt * 1000)"
StepPhysics ==
    /\ frame.pc = "physics"
    /\ \E g \in { EngineStep(FrameState) } :
           /\ Commit(g)
           /\ frame' = [frame EXCEPT !.pc = "proxy", !.rk = g.rk]
    /\ UNCHANGED <<width, depth, wallBodies, uTime, ret, gameVars>>

\* "this.updateSnakePhysics(snakePath)"
StepProxy ==
    /\ frame.pc = "proxy"
    /\ \E g \in { updateSnakePhysics(FrameState, frame.path) } :
           /\ Commit(g)
           /\ frame' = [frame EXCEPT !.pc = "population", !.rk = g.rk]
    /\ UNCHANGED <<width, depth, wallBodies, uTime, ret, gameVars>>

\* "if (this.organisms.length < TARGET_ORGANISM_COUNT) this.spawnOrganism(snakePath)"
StepPopulation ==
    /\ frame.pc = "population"
    /\ \E g \in { OrganismPopulation(FrameState, width, depth, frame.path, frame.seed) } :
           /\ Commit(g)
           /\ frame' = [frame EXCEPT !.pc = AfterOrganism(Len(g.organisms) + 1),
                                     !.oi = Len(g.organisms), !.rk = g.rk]
    /\ UNCHANGED <<width, depth, wallBodies, uTime, ret, gameVars>>

\* variant: the malformed entry ends the loop ("break" for "continue")
StepSteerBreaks ==
    /\ frame.pc = "steer"
    /\ frame.oi >= 1
    /\ frame.oi <= Len(organisms)
    /\ IF Len(organisms[frame.oi].nodes) = 0
       THEN /\ world' = WorldRemove(world, organisms[frame.oi].headBody)
            /\ organisms' = Splice(organisms, frame.oi)
            /\ frame' = [frame EXCEPT !.pc = "fruit", !.oi = 0]
            /\ UNCHANGED <<nextBodyId, snakeBodies, nextOrganismId, fruits, log>>
       ELSE \E g \in { steerOrganism(FrameState, frame.oi, frame.seed) } :
               /\ Commit(g)
               /\ frame' = [frame EXCEPT !.pc = "relax", !.rk = g.rk]
    /\ UNCHANGED <<width, depth, wallBodies, uTime, ret, gameVars>>

\* the head of the loop body for organisms[oi]: the malformed entry is
\* dropped, any other organism is steered
StepSteer ==
    /\ frame.pc = "steer"
    /\ frame.oi >= 1
    /\ frame.oi <= Len(organisms)
    /\ IF Len(organisms[frame.oi].nodes) = 0
       THEN /\ world' = WorldRemove(world, organisms[frame.oi].headBody)
            /\ organisms' = Splice(organisms, frame.oi)
            /\ frame' = [frame EXCEPT !.pc = AfterOrganism(frame.oi), !.oi = @ - 1]
            /\ UNCHANGED <<nextBodyId, snakeBodies, nextOrganismId, fruits, log>>
       ELSE \E g \in { steerOrganism(FrameState, frame.oi, frame.seed) } :
               /\ Commit(g)
               /\ frame' = [frame EXCEPT !.pc = "relax", !.rk = g.rk]
    /\ UNCHANGED <<width, depth, wallBodies, uTime, ret, gameVars>>

\* the rest of the loop body for organisms[oi]: head sync and relaxation
StepRelax ==
    /\ frame.pc = "relax"
    /\ frame.oi >= 1
    /\ frame.oi <= Len(organisms)
    /\ \E g \in { RelaxOrganism(SyncHead(FrameState, frame.oi), frame.oi, uTime) } :
           /\ Commit(g)
           /\ frame' = [frame EXCEPT !.pc = AfterOrganism(frame.oi), !.oi = @ - 1,
                                     !.rk = g.rk]
    /\ UNCHANGED <<width, depth, wallBodies, uTime, ret, gameVars>>

\* "if (this.fruits.length < FRUIT_TARGET_COUNT) this.spawnFruit()"; the call
\* returns
StepFruit ==
    /\ frame.pc = "fruit"
    /\ \E g \in { FruitPopulation(FrameState, width, depth, frame.seed) } :
           Commit(g)
    /\ frame' = Idle
    /\ UNCHANGED <<width, depth, wallBodies, uTime, ret, gameVars>>

\* variant: the listener may start while an update call is in flight
OnGameResizeMidFrame(aspect) ==
    /\ frame.pc \in { "idle", "proxy", "population", "steer", "relax", "fruit" }
    /\ Resize(aspect)

\* the 'game-resize' listener: "this.grid.resize(aspect)".  The listener is a
\* task of the same event loop as the animation-frame callback, so it starts
\* only when no callback is running
OnGameResize(aspect) ==
    /\ frame.pc = "idle"
    /\ Resize(aspect)

PathNear == << P(2908, 3584) >>

\* a path that turns a corner: half a unit along x, then along z
PathBent == << P(4000, -4000), P(4500, -4000), P(4500, -3500), P(4500, -3000),
              P(4500, -2500) >>

NextFrame ==
    \/ \E aspect \in Aspects : OnGameResize(aspect)
    \/ \E in \in { <<PathCentre, <<500, 0>> >>, <<PathNear, <<137, 619>> >>,
                    <<PathAway, <<900, 619>> >>, <<PathBent, <<910, 277>> >> } :
          BeginUpdate(MaxSteppedFrames * 16, 16, in[1], in[2])
    \/ StepPhysics
    \/ StepProxy
    \/ StepPopulation
    \/ StepSteer
    \/ StepRelax
    \/ StepFruit

SpecFrame == Init /\ [][NextFrame]_vars

\* The per-organism pass given a pool with a malformed entry.  No operation
\* of Grid leaves an organism without nodes, so the entry is an input here:
\* the pool holds two spawned organisms and the nodes of one are taken away.
InitMalformed ==
    \E aspect \in Aspects, m \in 1..2 :
        \E g \in { spawnOrganism(
                       spawnOrganism(
                           [world |-> WallsOf(Fx(FIXED_SIDE, aspect), FIXED_SIDE),
                            nextBodyId |-> 5, snakeBodies |-> << >>,
                            organisms |-> << >>, nextOrganismId |-> 0,
                            fruits |-> << >>, rk |-> 0, log |-> << >>],
                           Fx(FIXED_SIDE, aspect), FIXED_SIDE, << >>, <<137, 619>>),
                       Fx(FIXED_SIDE, aspect), FIXED_SIDE, << >>, <<910, 277>>) } :
            /\ depth = FIXED_SIDE
            /\ width = Fx(FIXED_SIDE, aspect)
            /\ organisms = [g.organisms EXCEPT ![m].nodes = << >>]
            /\ nextOrganismId = g.nextOrganismId
            /\ fruits = << >>
            /\ world = g.world
            /\ nextBodyId = g.nextBodyId
            /\ snakeBodies = << >>
            /\ wallBodies = << 1, 2, 3, 4 >>
            /\ uTime = 0
            /\ ret = NoCall
            /\ log = << >>
            /\ frame = Idle
            /\ GameInit

SpecMalformed == InitMalformed /\ [][NextFrame]_vars

-----------------------------------------------------------------------------
\* Properties

Tags(l) == { l[i] : i \in 1..Len(l) }

\* C1  Population invariant: after any sequence of resize, update and
\* handleFruitCollection calls the organism pool holds at most
\* TARGET_ORGANISM_COUNT organisms and the fruit pool at most
\* CONFIG.FRUIT.TARGET_COUNT fruits.
C1_PopulationInvariant ==
    /\ Len(organisms) <= TARGET_ORGANISM_COUNT
    /\ Len(fruits) <= FRUIT_TARGET_COUNT

\* an update that found both pools full and spawned nothing
C1_Witness ==
    /\ ret.op = "update"
    /\ Len(organisms) = TARGET_ORGANISM_COUNT
    /\ Len(fruits) = FRUIT_TARGET_COUNT
    /\ "spawnOrganism" \notin Tags(log)
    /\ "spawnFruit" \notin Tags(log)

\* C2  Head-sync invariant: at the end of every update, segment 0 of every
\* organism (one spawned in that call included) is at the position of its
\* head body.
C2_HeadSync ==
    \A i \in 1..Len(organisms) :
        /\ organisms[i].nodes[1].x = world[organisms[i].headBody].x
        /\ organisms[i].nodes[1].z = world[organisms[i].headBody].y

\* an update that stepped an older organism and spawned a new one
C2_Witness ==
    /\ ret.op = "update"
    /\ "spawnOrganism" \in Tags(log)
    /\ Len(organisms) >= 3
    /\ world[organisms[1].headBody].vx # 0

\* C3  Boundary correctness, blocked side: isPositionBlocked(x, z, r) is true
\* whenever x < -width/2 + r, x > width/2 - r, z < -depth/2 + r or
\* z > depth/2 - r, whatever bodies the world holds.
C3_BlockedOutsideBounds ==
    ( /\ ret.op = "blocked"
      /\ \/ 2 * ret.x < 2 * ret.radius - width
         \/ 2 * ret.x > width - 2 * ret.radius
         \/ 2 * ret.z < 2 * ret.radius - depth
         \/ 2 * ret.z > depth - 2 * ret.radius )
    => ret.result

\* isPositionBlocked(10.4, 0, 0.5) on the 20 x 20 arena, with bodies around
C3_Witness ==
    /\ ret.op = "blocked"
    /\ ret.x = 10400 /\ ret.z = 0 /\ ret.radius = 500
    /\ width = 20000 /\ depth = 20000
    /\ Len(organisms) > 0
    /\ ret.result

\* the arena as resize leaves it: the four walls and nothing else
FreshArena ==
    /\ DOMAIN world = { wallBodies[i] : i \in 1..Len(wallBodies) }
    /\ organisms = << >>
    /\ fruits = << >>
    /\ snakeBodies = << >>

\* C4  Boundary correctness, free side: on a freshly resized arena whose only
\* bodies are the four walls, isPositionBlocked(0, 0, r) is false for a
\* radius r smaller than half the arena's sides.
C4_CentreFree ==
    ( /\ ret.op = "blocked"
      /\ FreshArena
      /\ ret.x = 0 /\ ret.z = 0
      /\ 2 * ret.radius < width /\ 2 * ret.radius < depth )
    => ~ret.result

\* isPositionBlocked(0, 0, 0.5) on the fresh 20 x 20 arena
C4_Witness ==
    /\ ret.op = "blocked"
    /\ FreshArena
    /\ ret.x = 0 /\ ret.z = 0 /\ ret.radius = 500
    /\ width = 20000 /\ depth = 20000
    /\ ~ret.result

\* the query circle of ret overlaps body b: circles by centre distance,
\* boxes by bounds
Overlaps(b) ==
    IF b.circleRadius # 0
    THEN /\ Abs(ret.x - b.x) < ret.radius + b.circleRadius
         /\ Abs(ret.z - b.y) < ret.radius + b.circleRadius
         /\ (ret.x - b.x) * (ret.x - b.x) + (ret.z - b.y) * (ret.z - b.y)
              < (ret.radius + b.circleRadius) * (ret.radius + b.circleRadius)
    ELSE /\ b.x - b.hw <= ret.x + ret.radius
         /\ b.x + b.hw >= ret.x - ret.radius
         /\ b.y - b.hh <= ret.z + ret.radius
         /\ b.y + b.hh >= ret.z - ret.radius

InsideBounds ==
    /\ 2 * ret.x >= 2 * ret.radius - width
    /\ 2 * ret.x <= width - 2 * ret.radius
    /\ 2 * ret.z >= 2 * ret.radius - depth
    /\ 2 * ret.z <= depth - 2 * ret.radius

\* C5  Inside the radius-inset bounds isPositionBlocked is true exactly when
\* the query circle overlaps an organism head, a follower sensor or a wall;
\* snake proxies and fruit never block.
C5_BlockedIffObstacle ==
    (ret.op = "blocked" /\ InsideBounds)
    => ( ret.result
         <=> \E i \in DOMAIN world :
                /\ world[i].label \in { "org_head", "org_tail", "Wall Body" }
                /\ Overlaps(world[i]) )

\* a query on top of a snake proxy or a fruit that is answered "free"
C5_Witness ==
    /\ ret.op = "blocked"
    /\ InsideBounds
    /\ ~ret.result
    /\ \E i \in DOMAIN world :
          /\ world[i].label \in { "snake", "fruit" }
          /\ world[i].x = ret.x /\ world[i].y = ret.z

\* C6 (as claimed)  Collection idempotence: of two immediately successive
\* handleFruitCollection calls with the same arguments the second returns
\* false, so the two remove at most one fruit.
C6_SecondCallFalse ==
    (ret.op = "collect" /\ ret.again) => ~ret.result

\* C6 (amended)  Every handleFruitCollection call removes at most one fruit,
\* and the second of two immediately successive calls with the same arguments
\* returns false and removes nothing whenever at most one fruit was in range
\* of the first call.
C6_SecondCallFalseIfOneInRange ==
    [][ ret'.op = "collect" =>
        /\ Len(fruits') >= Len(fruits) - 1
        /\ (ret'.again /\ ret'.prevInRange <= 1)
              => (~ret'.result /\ fruits' = fruits /\ world' = world)
      ]_vars

\* a call that collected the only fruit in range, repeated at once
C6_Witness ==
    /\ ret.op = "collect"
    /\ ret.again
    /\ ret.prevResult
    /\ ret.prevInRange = 1
    /\ ~ret.result

\* C7  handleFruitCollection returns true iff some pooled fruit lies within
\* radius + 0.5 of (x, z); it then removes the first such fruit in pool order
\* and its body, and nothing else; when it returns false nothing changes.
C7_CollectsFirstInRange ==
    [][ ret'.op = "collect" =>
        LET near(f) == /\ Abs(ret'.x - f.x) < ret'.radius + 500
                       /\ Abs(ret'.z - f.z) < ret'.radius + 500
                       /\ (ret'.x - f.x) * (ret'.x - f.x)
                            + (ret'.z - f.z) * (ret'.z - f.z)
                          < (ret'.radius + 500) * (ret'.radius + 500)
            hits == { j \in 1..Len(fruits) : near(fruits[j]) }
        IN  /\ ret'.result <=> hits # {}
            /\ IF hits = {}
               THEN fruits' = fruits /\ world' = world
               ELSE LET k == CHOOSE j \in hits : \A h \in hits : j <= h
                    IN  /\ Len(fruits') = Len(fruits) - 1
                        /\ \A j \in 1..Len(fruits') :
                              fruits'[j] = IF j < k THEN fruits[j] ELSE fruits[j + 1]
                        /\ DOMAIN world' = DOMAIN world \ { fruits[k].body }
                        /\ \A i \in DOMAIN world' : world'[i] = world[i]
      ]_vars

\* a call that removed a fruit while another fruit was in range too
C7_Witness ==
    /\ ret.op = "collect"
    /\ ret.result
    /\ ret.inRange >= 2
    /\ Len(fruits) >= 1

\* epsilon of the relaxation bound: 1.5 * wiggle amplitude / stiffness
RelaxEpsilon == (WiggleAmplitude * 1500) \div Stiffness

\* how far follower j of organism o is stretched beyond its rest length
Excess(o, j) ==
    Length3(o.nodes[o.nodes[j].parentIndex + 1].x - o.nodes[j].x, 0,
            o.nodes[o.nodes[j].parentIndex + 1].z - o.nodes[j].z)
      - o.nodes[j].dist

\* C8  Relaxation bound: while the head stays put, every follower stays within
\* its rest length plus RelaxEpsilon of its parent, frame after frame.
C8_RelaxationBound ==
    \A i \in 1..Len(organisms) :
        \A j \in 2..Len(organisms[i].nodes) :
            Excess(organisms[i], j) <= RelaxEpsilon

\* many frames on, with a follower stretched beyond its rest length
C8_Witness ==
    /\ ret.op = "relax"
    /\ uTime >= 30 * 16
    /\ \E i \in 1..Len(organisms) :
          \E j \in 2..Len(organisms[i].nodes) : Excess(organisms[i], j) > 0

Rank(tag) ==
    CASE tag = "physics" -> 1
      [] tag = "proxy" -> 2
      [] tag \in { "population", "spawnOrganism" } -> 3
      [] tag \in { "steer", "sync", "relax" } -> 4
      [] tag \in { "fruit", "spawnFruit" } -> 5

\* C10  Frame ordering: every update runs physics step, proxy sync, organism
\* population maintenance, then per organism steer, head sync and relaxation,
\* then fruit maintenance, each phase once and none before an earlier one.
C10_FrameOrdering ==
    ret.op = "update" =>
        /\ Len(log) >= 4
        /\ log[1] = "physics"
        /\ log[2] = "proxy"
        /\ log[3] = "population"
        /\ \A i \in 1..Len(log) : \A j \in i..Len(log) : Rank(log[i]) <= Rank(log[j])
        /\ \A i \in 1..Len(log) :
              /\ log[i] \in { "physics", "proxy", "population", "fruit" }
                    => \A j \in 1..Len(log) : log[j] = log[i] => j = i
              /\ log[i] = "steer" =>
                    i + 2 <= Len(log) /\ log[i + 1] = "sync" /\ log[i + 2] = "relax"
              /\ log[i] = "relax" => i > 2 /\ log[i - 2] = "steer"
              /\ log[i] = "sync" => i > 1 /\ log[i - 1] = "steer"
        /\ Cardinality({ i \in 1..Len(log) : log[i] = "steer" }) = Len(organisms)
        /\ "fruit" \in Tags(log)

\* a frame in which every phase acted: organisms steered and relaxed, an
\* organism and a fruit spawned
C10_Witness ==
    /\ ret.op = "update"
    /\ Len(organisms) >= 2
    /\ "spawnOrganism" \in Tags(log)
    /\ "spawnFruit" \in Tags(log)
    /\ Len(snakeBodies) >= 2

\* the box a wall body covers
WallBox(b) ==
    [minx |-> b.x - b.hw, maxx |-> b.x + b.hw,
     miny |-> b.y - b.hh, maxy |-> b.y + b.hh]

\* C11  Resize is a full reset: right after resize the organism pool, the
\* fruit pool and the snake-proxy pool are empty and the world holds exactly
\* four wall bodies, 10 thick, lying along the four edges of the new
\* width x depth arena.
C11_ResizeResets ==
    ret.op = "resize" =>
        /\ organisms = << >>
        /\ fruits = << >>
        /\ snakeBodies = << >>
        /\ nextOrganismId = 0
        /\ depth = FIXED_SIDE
        /\ width = (FIXED_SIDE * ret.aspect) \div 1000
        /\ Len(wallBodies) = 4
        /\ DOMAIN world = { wallBodies[i] : i \in 1..4 }
        /\ \A i \in DOMAIN world : world[i].label = "Wall Body" /\ world[i].isStatic
        /\ { WallBox(world[i]) : i \in DOMAIN world } =
             { [minx |-> -(width \div 2), maxx |-> width \div 2,
                miny |-> -(depth \div 2) - 10000, maxy |-> -(depth \div 2)],
               [minx |-> -(width \div 2), maxx |-> width \div 2,
                miny |-> depth \div 2, maxy |-> (depth \div 2) + 10000],
               [minx |-> -(width \div 2) - 10000, maxx |-> -(width \div 2),
                miny |-> -(depth \div 2), maxy |-> depth \div 2],
               [minx |-> width \div 2, maxx |-> (width \div 2) + 10000,
                miny |-> -(depth \div 2), maxy |-> depth \div 2] }

\* a resize to the wide arena after frames that filled the pools
C11_Witness ==
    /\ ret.op = "resize"
    /\ ret.aspect = 1500
    /\ uTime >= 3 * 16
    /\ width = 30000
    /\ Cardinality(DOMAIN world) = 4

\* C13  Between resizes an update never removes an organism whose node list
\* is non-empty: every such organism is still in the pool, with its head
\* body in the world, after the update; the organism count does not drop,
\* and a pool that is at the target is still at the target afterwards.
C13_NoDespawn ==
    [][ret'.op = "update" =>
          /\ \A i \in 1..Len(organisms) :
                Len(organisms[i].nodes) > 0 =>
                    /\ i <= Len(organisms')
                    /\ organisms'[i].id = organisms[i].id
                    /\ organisms'[i].headBody = organisms[i].headBody
                    /\ organisms[i].headBody \in DOMAIN world'
          /\ Len(organisms') >= Len(organisms)
          /\ (Len(organisms) = TARGET_ORGANISM_COUNT
                  => Len(organisms') = TARGET_ORGANISM_COUNT)]_vars

\* a frame that ran on a full pool and left all six organisms in it
C13_Witness ==
    /\ ret.op = "update"
    /\ uTime = (TARGET_ORGANISM_COUNT + 1) * 16
    /\ Len(organisms) = TARGET_ORGANISM_COUNT
    /\ \A i \in 1..Len(organisms) : organisms[i].id = i - 1

ClearanceFails(k) ==
    /\ Len(frame.path) > 0
    /\ DistLess(frame.path[1].x
                    - ((Rnd(frame.seed, frame.rk + 2 * k) - 500) * (width - 6000)) \div 1000,
                frame.path[1].y,
                frame.path[1].z
                    - ((Rnd(frame.seed, frame.rk + 2 * k + 1) - 500) * (depth - 6000)) \div 1000,
                8000)

\* C15  When the pool is below its target and all ten candidate points fail
\* the player-clearance test, the population step adds no organism and no
\* body and leaves the next organism id as it was, and the update goes on to
\* its next phase; and every update that finds the pool below the target
\* makes the spawn attempt, so the next frame tries again.
C15_SpawnExhaustion ==
    [][frame.pc = "population" /\ Len(organisms) < TARGET_ORGANISM_COUNT =>
          /\ "spawnOrganism" \in Tags(log')
          /\ (\A k \in 0..9 : ClearanceFails(k)) =>
                /\ organisms' = organisms
                /\ world' = world
                /\ nextBodyId' = nextBodyId
                /\ nextOrganismId' = nextOrganismId
                /\ Len(organisms') < TARGET_ORGANISM_COUNT
                /\ frame'.pc \in { "steer", "fruit" }]_vars

\* a later frame whose ten candidates were all too close to the player: the
\* attempt was made, the pool is still empty and the call is at its fruit phase
C15_Witness ==
    /\ uTime = 2 * 16
    /\ frame.pc = "fruit"
    /\ frame.path = PathCentre
    /\ frame.rk = 2 * SpawnAttempts
    /\ log = << "physics", "proxy", "population", "spawnOrganism" >>
    /\ organisms = << >>
    /\ nextOrganismId = 0
    /\ Len(snakeBodies) = 2

\* the region query of the k-th fruit candidate of the call in flight returns
\* at least one body: the 1 x 1 box around the candidate meets some body's
\* bounding box
RegionOccupied(k) ==
    LET rx == ((Rnd(frame.seed, frame.rk + 2 * k) - 500) * (width - 2000)) \div 1000
        rz == ((Rnd(frame.seed, frame.rk + 2 * k + 1) - 500) * (depth - 2000)) \div 1000
    IN  \E b \in DOMAIN world :
            /\ Bounds(world[b]).minx <= rx + 500
            /\ Bounds(world[b]).maxx >= rx - 500
            /\ Bounds(world[b]).miny <= rz + 500
            /\ Bounds(world[b]).maxy >= rz - 500

\* C16  When the fruit pool is below its target and the region query of each
\* of the ten candidate points returns at least one body, the fruit step
\* creates no fruit and no body: the fruit pool and the world are unchanged.
C16_FruitExhaustion ==
    [][(frame.pc = "fruit" /\ Len(fruits) < FRUIT_TARGET_COUNT
           /\ (\A k \in 0..9 : RegionOccupied(k)))
       => (/\ fruits' = fruits
           /\ world' = world
           /\ nextBodyId' = nextBodyId
           /\ log' = Append(Append(log, "fruit"), "spawnFruit"))]_vars

\* an update has returned after a fruit attempt that found the snake's head
\* proxy at every candidate point: no fruit exists
C16_Witness ==
    /\ frame = Idle
    /\ ret.op = "update"
    /\ Len(log) > 0
    /\ log[Len(log)] = "spawnFruit"
    /\ fruits = << >>
    /\ Len(snakeBodies) > 0
    /\ world[snakeBodies[1]].x = 0
    /\ world[snakeBodies[1]].y = 0
    /\ \A b \in DOMAIN world : world[b].label # "fruit"

\* C17  Every organism is created with its head centre inside the inset
\* interior, |x| <= (width - 6)/2 and |z| <= (depth - 6)/2, and, when the
\* player path is non-empty, at a distance in the arena plane from path[0]
\* that exceeds 8.
C17_SpawnClearance ==
    [][frame.pc = "population" /\ Len(organisms') = Len(organisms) + 1 =>
          LET head == world'[organisms'[Len(organisms')].headBody]
          IN  /\ 2 * Abs(head.x) <= width - 6000
              /\ 2 * Abs(head.y) <= depth - 6000
              /\ Len(frame.path) > 0 =>
                    (head.x - frame.path[1].x) * (head.x - frame.path[1].x)
                      + (head.y - frame.path[1].z) * (head.y - frame.path[1].z)
                    > 8000 * 8000]_vars

\* the bodies the look-ahead ray of org, cast from its head along heading
\* angle, intersects, the organism's own head and followers left out
RayMeets(org, angle) ==
    { i \in DOMAIN world :
        /\ i # org.headBody
        /\ i \notin { org.segmentBodies[j] : j \in 1..Len(org.segmentBodies) }
        /\ RayHits(world[i], Ray(world[org.headBody].x, world[org.headBody].y, angle)) }

\* the organism at the head of the loop turned by a quarter turn
QuarterTurn ==
    organisms'[frame.oi].angle - organisms[frame.oi].angle \in { 1571, -1571 }

RayReports(org, angle) ==
    \E i \in RayMeets(org, angle) : world[i].label # "fruit"

\* C19  On each steer call the heading changes by exactly a quarter turn,
\* +90 or -90 degrees, if the ray reports an intersection and by a wander of
\* at most 0.05 rad otherwise; the head body's velocity is then speed times
\* (cos, sin) of the updated heading; and no step of an update changes the
\* speed of an organism in the pool.
C19_SteeringResponse ==
    [][/\ (frame.pc = "steer" /\ frame'.pc = "relax") =>
            LET old  == organisms[frame.oi]
                new  == organisms'[frame.oi]
                head == world'[new.headBody]
            IN  /\ RayReports(old, old.angle) => new.angle - old.angle \in { 1571, -1571 }
                /\ ~RayReports(old, old.angle) => Abs(new.angle - old.angle) <= 50
                /\ head.vx = Fx(Cos(new.angle), new.speed)
                /\ head.vy = Fx(Sin(new.angle), new.speed)
                /\ new.speed = old.speed
       /\ ret'.op = "update" =>
            \A i \in 1..Len(organisms) :
                i <= Len(organisms') /\ organisms'[i].speed = organisms[i].speed]_vars

\* an organism has just been steered away from an obstacle in its ray: its
\* heading before the step was a quarter turn from the present one, on the
\* side given by the draw, and the ray along it met a body that is not a fruit
C19_Witness ==
    /\ frame.pc = "relax"
    /\ frame.oi >= 1
    /\ frame.oi <= Len(organisms)
    /\ LET org  == organisms[frame.oi]
           prev == org.angle
                     - (IF Rnd(frame.seed, frame.rk - 1) < 500 THEN 1571 ELSE -1571)
       IN  /\ RayReports(org, prev)
           /\ world[org.headBody].vx = Fx(Cos(org.angle), org.speed)
           /\ world[org.headBody].vx # Fx(Cos(prev), org.speed)

\* the number of path points after position last that get a proxy: those at
\* least 0.8 from the point that got the previous one
RECURSIVE PlacedAfter(_, _, _)
PlacedAfter(path, i, last) ==
    IF i > Len(path) THEN 0
    ELSE IF (path[i].x - path[last].x) * (path[i].x - path[last].x)
              + (path[i].y - path[last].y) * (path[i].y - path[last].y)
              + (path[i].z - path[last].z) * (path[i].z - path[last].z)
            >= 800 * 800
         THEN 1 + PlacedAfter(path, i + 1, i)
         ELSE PlacedAfter(path, i + 1, last)

\* the number of proxies a sync places for path
Placed(path) == IF Len(path) = 0 THEN 0 ELSE 1 + PlacedAfter(path, 2, 1)

\* C20  After every proxy sync each pool slot at or beyond the number of
\* proxies placed in that frame sits at (9999, 9999) and the pool is as long
\* as the larger of its old length and the number placed; and over every
\* step of an update the pool keeps its slots (the old pool is a prefix of
\* the new one) and every pool member is a snake body of the world.
C20_ProxyParking ==
    [][/\ frame.pc = "proxy" =>
            /\ Len(snakeBodies') = Max(Len(snakeBodies), Placed(frame.path))
            /\ \A s \in 1..Len(snakeBodies') :
                  s > Placed(frame.path) =>
                      /\ world'[snakeBodies'[s]].x = 9999000
                      /\ world'[snakeBodies'[s]].y = 9999000
       /\ ret'.op = "update" =>
            /\ Len(snakeBodies') >= Len(snakeBodies)
            /\ \A s \in 1..Len(snakeBodies) : snakeBodies'[s] = snakeBodies[s]
            /\ \A s \in 1..Len(snakeBodies') :
                  /\ snakeBodies'[s] \in DOMAIN world'
                  /\ world'[snakeBodies'[s]].label = "snake"]_vars

\* a sync for a one-point path on a pool of two: the head proxy is at the
\* player's head and the second slot is parked
C20_Witness ==
    /\ frame.pc = "population"
    /\ Len(frame.path) = 1
    /\ Len(snakeBodies) = 2
    /\ world[snakeBodies[1]].x = frame.path[1].x
    /\ world[snakeBodies[1]].y = frame.path[1].z
    /\ world[snakeBodies[2]].x = 9999000
    /\ world[snakeBodies[2]].y = 9999000

\* the number of entries of log equal to tag
Count(l, tag) == Cardinality({ i \in 1..Len(l) : l[i] = tag })

\* C14  An organism without nodes met by the per-organism pass is dropped
\* from the pool and its head body is removed from the world, and the pass
\* goes on with the organism before it; when the update returns the pool
\* holds no such entry, every head body of the world belongs to an organism
\* of the pool, and every organism of the pool was steered, synced and
\* relaxed in that frame.
C14_MalformedDropped ==
    [][/\ (frame.pc = "steer" /\ Len(organisms[frame.oi].nodes) = 0) =>
            /\ Len(organisms') = Len(organisms) - 1
            /\ \A i \in 1..Len(organisms') :
                  organisms'[i] = organisms[IF i < frame.oi THEN i ELSE i + 1]
            /\ organisms[frame.oi].headBody \notin DOMAIN world'
            /\ frame'.oi = frame.oi - 1
            /\ frame'.pc = (IF frame.oi > 1 THEN "steer" ELSE "fruit")
       /\ (frame.pc = "fruit" /\ frame'.pc = "idle") =>
            /\ \A i \in 1..Len(organisms') : Len(organisms'[i].nodes) > 0
            /\ \A b \in DOMAIN world' :
                  world'[b].label = "org_head" =>
                      \E i \in 1..Len(organisms') : organisms'[i].headBody = b
            /\ Count(log', "steer") = Len(organisms')
            /\ Count(log', "sync") = Len(organisms')
            /\ Count(log', "relax") = Len(organisms')]_vars

\* the first update on the pool with the malformed entry has returned: three
\* organism ids were given out, the pool holds two organisms, both processed
C14_Witness ==
    /\ frame = Idle
    /\ ret.op = "update"
    /\ uTime = 16
    /\ nextOrganismId = 3
    /\ Len(organisms) = 2
    /\ Count(log, "steer") = 2
    /\ Cardinality({ b \in DOMAIN world : world[b].label = "org_head" }) = 2

\* the samples of path that get a proxy when a sample is taken as soon as its
\* straight-line distance from the last sample taken is at least 0.8
RECURSIVE SampledStraight(_, _, _)
SampledStraight(path, i, last) ==
    IF i > Len(path) THEN << >>
    ELSE IF (path[i].x - path[last].x) * (path[i].x - path[last].x)
              + (path[i].y - path[last].y) * (path[i].y - path[last].y)
              + (path[i].z - path[last].z) * (path[i].z - path[last].z)
            >= 800 * 800
         THEN << path[i] >> \o SampledStraight(path, i + 1, i)
         ELSE SampledStraight(path, i + 1, last)

\* the samples that get a proxy when a sample is taken as soon as the length
\* of the path walked since the last sample taken, acc plus the step to
\* path[i], is at least 0.8
RECURSIVE SampledAccumulated(_, _, _)
SampledAccumulated(path, i, acc) ==
    IF i > Len(path) THEN << >>
    ELSE IF acc + Length3(path[i].x - path[i - 1].x, path[i].y - path[i - 1].y,
                          path[i].z - path[i - 1].z) >= 800
         THEN << path[i] >> \o SampledAccumulated(path, i + 1, 0)
         ELSE SampledAccumulated(path, i + 1,
                  acc + Length3(path[i].x - path[i - 1].x, path[i].y - path[i - 1].y,
                                path[i].z - path[i - 1].z))

\* after the proxy sync, slot i of the pool is a static snake circle at the
\* i-th point of pts, and bodies were created only for the slots the pool
\* did not have
SlotsHold(pts) ==
    /\ Len(snakeBodies') >= Len(pts)
    /\ \A i \in 1..Len(pts) :
          /\ world'[snakeBodies'[i]].x = pts[i].x
          /\ world'[snakeBodies'[i]].y = pts[i].z
          /\ world'[snakeBodies'[i]].isStatic
          /\ world'[snakeBodies'[i]].label = "snake"
          /\ i <= Len(snakeBodies) => snakeBodies'[i] = snakeBodies[i]
    /\ nextBodyId' - nextBodyId = Max(0, Len(pts) - Len(snakeBodies))
    /\ Cardinality(DOMAIN world') - Cardinality(DOMAIN world)
          = Max(0, Len(pts) - Len(snakeBodies))

C22_StarTopology ==
    \A o \in 1..Len(organisms) :
        \A j \in 1..Len(organisms[o].nodes) :
            /\ j = 1 => organisms[o].nodes[j].parentIndex = -1
            /\ j > 1 => organisms[o].nodes[j].parentIndex = 0
            /\ organisms[o].nodes[j].parentIndex + 1 < j

\* a full pool after six frames of spawning and relaxation, every organism
\* with its head node and at least five followers
C22_Witness ==
    /\ ret.op = "update"
    /\ uTime = TARGET_ORGANISM_COUNT * 16
    /\ Len(organisms) = TARGET_ORGANISM_COUNT
    /\ \A o \in 1..Len(organisms) : Len(organisms[o].nodes) >= 6
    /\ "relax" \in Tags(log)

\* the bodies owned by the pools: walls, snake proxies, organism segments
\* and fruits, listed owner by owner
OwnedBodies ==
    wallBodies \o snakeBodies
      \o [i \in 1..Len(fruits) |-> fruits[i].body]

RECURSIVE SegmentsFrom(_)
SegmentsFrom(o) ==
    IF o > Len(organisms) THEN << >>
    ELSE organisms[o].segmentBodies \o SegmentsFrom(o + 1)

\* C24  In every state reached by resize, update and handleFruitCollection
\* the bodies of the world are exactly the four walls, the snake proxies,
\* the segment bodies of the pooled organisms (head first, as many as the
\* organism has nodes) and the bodies of the pooled fruits, each body owned
\* once.
C24_WorldPoolConsistency ==
    LET owned == OwnedBodies \o SegmentsFrom(1)
    IN  /\ Len(wallBodies) = 4
        /\ { owned[i] : i \in 1..Len(owned) } = DOMAIN world
        /\ Cardinality(DOMAIN world) = Len(owned)
        /\ \A o \in 1..Len(organisms) :
              /\ Len(organisms[o].segmentBodies) = Len(organisms[o].nodes)
              /\ organisms[o].segmentBodies[1] = organisms[o].headBody

\* a fruit has just been collected from an arena that holds organisms, snake
\* proxies and another fruit
C24_Witness ==
    /\ ret.op = "collect"
    /\ ret.result
    /\ Len(fruits) = 1
    /\ Len(organisms) = 2
    /\ Len(snakeBodies) = 2

(***************************************************************************)
(* Wall queries: isPositionBlocked on a world that holds only the four     *)
(* walls, at points on and next to the radius-inset boundary.              *)
(***************************************************************************)
WallRadii == { 500, 600 }

AxisPoints(half, radius) ==
    { -(half - radius) - 1, -(half - radius), -(half - radius) + 1, 0,
      (half - radius) - 1, half - radius, (half - radius) + 1 }

NextWalls ==
    \/ \E aspect \in Aspects : Resize(aspect)
    \/ \E radius \in WallRadii :
          \E x \in AxisPoints(width \div 2, radius),
             z \in AxisPoints(depth \div 2, radius) :
                IsPositionBlocked(x, z, radius)

SpecWalls == Init /\ [][NextWalls]_vars

OnlyWalls == DOMAIN world = { wallBodies[i] : i \in 1..Len(wallBodies) }

OnInsetBoundary(w, d, x, z, radius) ==
    \/ x = -(w \div 2) + radius
    \/ x = (w \div 2) - radius
    \/ z = -(d \div 2) + radius
    \/ z = (d \div 2) - radius

(* C27 as stated: with only the four walls in the world, isPositionBlocked *)
(* is true exactly when the point fails the inset bounds test, so a point  *)
(* exactly on the inset boundary is not blocked by the wall overlap check. *)
C27_WallsAddNothing ==
    (ret.op = "blocked" /\ OnlyWalls)
        => (ret.result <=> OutOfBounds(width, depth, ret.x, ret.z, ret.radius))

(* C27: with only the four walls in the world, isPositionBlocked is true   *)
(* exactly when the point fails the inset bounds test or lies exactly on   *)
(* the inset boundary, where the inclusive bounds-overlap test meets the   *)
(* adjacent wall; strictly inside the inset bounds no wall blocks.         *)
C27_WallsBlockBoundary ==
    (ret.op = "blocked" /\ OnlyWalls)
        => (ret.result <=>
               (\/ OutOfBounds(width, depth, ret.x, ret.z, ret.radius)
                \/ OnInsetBoundary(width, depth, ret.x, ret.z, ret.radius)))

C27_Witness ==
    /\ ret.op = "blocked"
    /\ OnlyWalls
    /\ ret.x = (width \div 2) - ret.radius
    /\ ret.z = 0
    /\ ~OutOfBounds(width, depth, ret.x, ret.z, ret.radius)
    /\ ret.result

(* C28: a single Grid.update adds at most one organism and at most one     *)
(* fruit, and no other call adds any, so after a resize has emptied the    *)
(* pools the organism pool needs at least TARGET_ORGANISM_COUNT updates to *)
(* fill.                                                                   *)
C28_GradualFill ==
    [][ /\ Len(organisms') <= Len(organisms) + 1
        /\ Len(fruits') <= Len(fruits) + 1
        /\ (ret'.op # "update" \/ uTime' = uTime)
              => (Len(organisms') <= Len(organisms) /\ Len(fruits') <= Len(fruits))
        /\ Len(organisms') * 16 <= uTime' ]_vars

C28_Witness ==
    /\ ret.op = "update"
    /\ Len(organisms) = TARGET_ORGANISM_COUNT
    /\ "spawnOrganism" \in Tags(log)
    /\ uTime >= TARGET_ORGANISM_COUNT * 16

-----------------------------------------------------------------------------
\* Audio: background music.  A call of the async startBackgroundMusic runs
\* up to "await this.init()" and leaves a continuation; the continuation and
\* the note timers run later, each to completion.

\* init() up to its first await: a missing context is created (suspended
\* until resumed) and resume() awaited; a suspended one is resumed; with a
\* running context init returns and only the await of the caller remains,
\* which is a microtask
initAwait(a) ==
    IF a.ctx = "running"
    THEN [a EXCEPT !.awaiting = Append(@, "micro")]
    ELSE [a EXCEPT !.ctx = "suspended", !.awaiting = Append(@, "resume")]

\* the first synchronous part of startBackgroundMusic()
startBackgroundMusic(a) == initAwait([a EXCEPT !.starts = @ + 1])

\* one run of the closure playNote of chain c (patternIndex, noteIndex are
\* the locals of its playMelodicSequence call): returns at once when
\* nothing is playing, else plays a note, advances and re-arms its timer
playNote(a, c) ==
    IF ~a.isPlaying THEN a
    ELSE [a EXCEPT
            !.notes = @ + 1,
            !.timers = Append(@,
                [id |-> c.id,
                 noteIndex |-> (c.noteIndex + 1) % NoteSteps,
                 patternIndex |-> IF c.noteIndex + 1 >= NoteSteps
                                  THEN (c.patternIndex + 1) % Patterns
                                  ELSE c.patternIndex])]

\* playMelodicSequence(): a new closure, run once at the end
playMelodicSequence(a) ==
    playNote([a EXCEPT !.chains = @ + 1],
             [id |-> a.chains + 1, noteIndex |-> 0, patternIndex |-> 0])

\* addPadLayer()
addPadLayer(a) == [a EXCEPT !.bgOscillators = @ + PadVoices]

\* startBackgroundMusic() after "await this.init()"
startContinuation(a) ==
    LET a1 == [a EXCEPT !.ctx = "running", !.awaiting = Tail(@)]
    IN  IF a1.isPlaying THEN a1
        ELSE addPadLayer(playMelodicSequence([a1 EXCEPT !.isPlaying = TRUE]))

\* Audio.stop()
stop(a) == [a EXCEPT !.bgOscillators = 0, !.isPlaying = FALSE]

\* Game.update, "Start background music on first input": the call is not
\* awaited
FirstInput ==
    /\ ~musicStarted
    /\ audio.starts < MaxStarts
    /\ audio' = startBackgroundMusic(audio)
    /\ musicStarted' = TRUE
    /\ UNCHANGED <<gridVars, snake, calls>>

\* a direct call of the public startBackgroundMusic()
StartBackgroundMusic ==
    /\ audio.starts < MaxStarts
    /\ audio' = startBackgroundMusic(audio)
    /\ UNCHANGED <<gridVars, snake, calls, musicStarted>>

\* the oldest pending continuation of startBackgroundMusic runs
StartContinues ==
    /\ audio.awaiting # << >>
    /\ audio.notes < MaxNotes
    /\ audio' = startContinuation(audio)
    /\ UNCHANGED <<gridVars, snake, calls, musicStarted>>

\* a call of the public stop()
Stop ==
    /\ audio' = stop(audio)
    /\ UNCHANGED <<gridVars, snake, calls, musicStarted>>

\* the oldest note timer fires; timers are tasks, so no microtask is pending
NoteTimer ==
    /\ audio.timers # << >>
    /\ \A i \in 1..Len(audio.awaiting) : audio.awaiting[i] # "micro"
    /\ audio.notes < MaxNotes
    /\ audio' = playNote([audio EXCEPT !.timers = Tail(@)], Head(audio.timers))
    /\ UNCHANGED <<gridVars, snake, calls, musicStarted>>

NextAudio ==
    \/ FirstInput
    \/ StartBackgroundMusic
    \/ StartContinues
    \/ Stop
    \/ NoteTimer

SpecAudio == Init /\ [][NextAudio]_vars

\* the note chains that will play again: armed timers while isPlaying holds
LiveChains ==
    IF audio.isPlaying THEN { audio.timers[i].id : i \in 1..Len(audio.timers) }
    ELSE {}

(* C30: under any interleaving of Audio.startBackgroundMusic and           *)
(* Audio.stop, un-awaited calls and a stop followed by a start before the  *)
(* pending note timer fires included, at most one melodic note-scheduling  *)
(* chain is live.                                                          *)
C30_SingleChain == Cardinality(LiveChains) <= 1

-----------------------------------------------------------------------------
\* Snake.move(displacement): displacement in fine units

\* "displacement.lengthSq() > 0.000001"
IsMove(dx, dz) ==
    \/ Abs(dx) > Fine
    \/ Abs(dz) > Fine
    \/ dx * dx + dz * dz > MinMoveSq

\* the head as a point of the path's coordinates
HeadPoint(s) == [x |-> ToMilli(s.x), y |-> 500, z |-> ToMilli(s.z)]

\* "if (this.path.length > maxPoints) this.path.length = maxPoints"
Truncate(path) ==
    IF Len(path) > MaxPoints THEN SubSeq(path, 1, MaxPoints) ELSE path

\* one turn of the interpolation loop on [path, dist]: a point is put
\* PathSpacing from path[0] towards the head, len being their distance
InterpolateAt(head, w, len) ==
    [path |-> Truncate(
         << [x |-> w.path[1].x + MulDiv(head.x - w.path[1].x, PathSpacing, len),
             y |-> w.path[1].y,
             z |-> w.path[1].z + MulDiv(head.z - w.path[1].z, PathSpacing, len)] >>
         \o w.path),
     dist |-> w.dist - PathSpacing]

InterpolateStep(head, w) ==
    InterpolateAt(head, w,
                  Max(1, Length3(head.x - w.path[1].x, 0, head.z - w.path[1].z)))

\* up to n turns of "while (dist > spacing)"
RECURSIVE InterpolateRun(_, _, _)
InterpolateRun(head, w, n) ==
    IF n = 0 \/ w.dist <= PathSpacing THEN w
    ELSE InterpolateRun(head, InterpolateStep(head, w), n - 1)

\* the whole loop, eight turns at a time
RECURSIVE Interpolate(_, _)
Interpolate(head, w) ==
    IF w.dist <= PathSpacing THEN w.path
    ELSE Interpolate(head, InterpolateRun(head, w, 8))

\* variant: the new points are appended at the tail of the path
MovedAppending(s) ==
    With(HeadPoint(s), LAMBDA head :
        [s EXCEPT !.path =
            With(Interpolate(head,
                    [path |-> s.path,
                     dist |-> Length3(head.x - s.path[1].x, 0, head.z - s.path[1].z)]),
                 LAMBDA q : SubSeq(q, 2, Len(q)) \o << q[1] >>)])

\* the snake once its position is moved: the path catches up
Moved(s) ==
    With(HeadPoint(s), LAMBDA head :
        [s EXCEPT !.path =
            Interpolate(head,
                [path |-> s.path,
                 dist |-> Length3(head.x - s.path[1].x, 0, head.z - s.path[1].z)])])

move(s, dx, dz) ==
    IF IsMove(dx, dz) THEN Moved([s EXCEPT !.x = @ + dx, !.z = @ + dz])
    ELSE s

-----------------------------------------------------------------------------
\* Game.update(dt)

\* Input.getDirection(): a unit vector in units of 1/DirUnit, or (0, 0)
DirUnit == 100000

\* "direction.x * speed * dt" in fine units, dt in ms
Proposed(d, dt) == MulDiv(d, (SNAKE_SPEED * dt) \div 1000, DirUnit \div Fine)

\* "CONFIG.SNAKE.CIRCLE_RADIUS + CONFIG.SNAKE.SAFETY_MARGIN"
HeadRadius == CIRCLE_RADIUS + SAFETY_MARGIN

\* the bodies of the world in fine units
FineBody(b) ==
    [b EXCEPT !.x = @ * Fine, !.y = @ * Fine, !.hw = @ * Fine, !.hh = @ * Fine,
              !.circleRadius = @ * Fine]

FineWorld(wd) == [i \in DOMAIN wd |-> FineBody(wd[i])]

\* this.grid.isPositionBlocked(x, z, r) at a point in fine units
Blocked(x, z) ==
    isPositionBlocked(FineWorld(world), width * Fine, depth * Fine, x, z,
                      HeadRadius * Fine)

\* Grid.handleFruitCollection on the record g: the record after the call
\* and the value returned
Collected(g, i) ==
    [g |-> IF i = 0 THEN g
           ELSE [g EXCEPT !.world = WorldRemove(@, g.fruits[i].body),
                          !.fruits = Splice(@, i)],
     result |-> i # 0]

handleFruitCollection(g, x, z, radius) ==
    Collected(g, FirstFruit(g.fruits, 1, x, z, radius))

\* Audio.playEatSound(): init() creates the context if there is none
playEatSound(a) == IF a.ctx = "none" THEN [a EXCEPT !.ctx = "suspended"] ELSE a

\* variant: the head position read before the move
CollectPointStale(s) == [x |-> snake.x, z |-> snake.z]

\* "const newHeadPos = this.snake.getHeadPosition()", s the snake after move
CollectPoint(s) == [x |-> s.x, z |-> s.z]

\* the end of the frame: the move (mx, mz) that passed the checks is
\* committed, the grid updated, fruit collected at the new head, music
\* started on the first input; tr is the trace of the checks made
Finish(d, dt, seed, mx, mz, tr) ==
    \E s \in { move(snake, mx, mz) } :
    \E g \in { UpdateResult(GridState, width, depth, s.path, seed,
                            uTime + Min(dt, 100)) } :
    \E at \in { CollectPoint(s) } :
    \E c \in { handleFruitCollection(g, ToMilli(at.x), ToMilli(at.z), HeadRadius) } :
        /\ snake' = s
        /\ uTime' = uTime + Min(dt, 100)
        /\ world' = c.g.world
        /\ nextBodyId' = c.g.nextBodyId
        /\ snakeBodies' = c.g.snakeBodies
        /\ organisms' = c.g.organisms
        /\ nextOrganismId' = c.g.nextOrganismId
        /\ fruits' = c.g.fruits
        /\ log' = c.g.log
        /\ ret' = [op |-> "collect", x |-> ToMilli(at.x), z |-> ToMilli(at.z),
                   radius |-> HeadRadius, result |-> c.result,
                   inRange |-> Cardinality({j \in 1..Len(g.fruits) :
                                   FruitInRange(g.fruits[j], ToMilli(at.x),
                                                ToMilli(at.z), HeadRadius)}),
                   again |-> FALSE, prevResult |-> FALSE, prevInRange |-> 0]
        /\ calls' = [frames |-> calls.frames + 1,
                     trace |-> tr \o
                        << [op |-> "move", dx |-> mx, dz |-> mz, x |-> s.x, z |-> s.z],
                           [op |-> "update", dx |-> 0, dz |-> 0, x |-> 0, z |-> 0],
                           [op |-> "handleFruitCollection", dx |-> 0, dz |-> 0,
                            x |-> at.x, z |-> at.z] >>]
        /\ audio' = With(IF c.result THEN playEatSound(audio) ELSE audio,
                         LAMBDA a : IF ~musicStarted /\ d # <<0, 0>>
                                    THEN startBackgroundMusic(a) ELSE a)
        /\ musicStarted' = (musicStarted \/ d # <<0, 0>>)
        /\ UNCHANGED <<width, depth, wallBodies, frame>>

\* variant: a blocked Z move is committed all the same
TryZNoVeto(d, dt, seed, mx, pz, tr) ==
    IF Abs(pz) > MoveThreshold
    THEN \E b \in { Blocked(snake.x + mx, snake.z + pz) } :
            Finish(d, dt, seed, mx, pz,
                   Append(tr, [op |-> "isPositionBlocked", dx |-> 0, dz |-> pz,
                               x |-> snake.x + mx, z |-> snake.z + pz,
                               result |-> b]))
    ELSE Finish(d, dt, seed, mx, pz, tr)

\* "Try moving Z", from the x already accepted
TryZ(d, dt, seed, mx, pz, tr) ==
    IF Abs(pz) > MoveThreshold
    THEN \E b \in { Blocked(snake.x + mx, snake.z + pz) } :
            Finish(d, dt, seed, mx, IF b THEN 0 ELSE pz,
                   Append(tr, [op |-> "isPositionBlocked", dx |-> 0, dz |-> pz,
                               x |-> snake.x + mx, z |-> snake.z + pz,
                               result |-> b]))
    ELSE Finish(d, dt, seed, mx, pz, tr)

\* "Try moving X"
TryX(d, dt, seed, px, pz) ==
    IF Abs(px) > MoveThreshold
    THEN \E b \in { Blocked(snake.x + px, snake.z) } :
            TryZ(d, dt, seed, IF b THEN 0 ELSE px, pz,
                 << [op |-> "isPositionBlocked", dx |-> px, dz |-> 0,
                     x |-> snake.x + px, z |-> snake.z, result |-> b] >>)
    ELSE TryZ(d, dt, seed, px, pz, << >>)

\* one frame: direction d from the input, dt in ms as clamped by loop(),
\* the draws of Math.random() given by seed
GameUpdate(d, dt, seed) ==
    /\ calls.frames < MaxGameFrames
    /\ frame.pc = "idle"
    /\ TryX(d, dt, seed, Proposed(d[1], dt), Proposed(d[2], dt))

\* the directions and frame times of the runs explored: down, a slant that
\* ends just short of the lower inset bound, right with a stick that is
\* off-centre by 0.00002, right, up-left
Inputs ==
    { << <<0, 100000>>, 100 >>,
      << <<447, 99999>>, 88 >>,
      << <<100000, 2>>, 100 >>,
      << <<100000, 0>>, 100 >>,
      << <<-70711, -70711>>, 100 >> }

NextGame ==
    \/ \E aspect \in Aspects : OnGameResize(aspect)
    \/ \E in \in Inputs : GameUpdate(in[1], in[2], <<137, 619>>)

SpecGame == Init /\ [][NextGame]_vars

\* the head lies inside the bounds inset by the head radius
HeadInside ==
    ~OutOfBounds(width * Fine, depth * Fine, snake.x, snake.z, HeadRadius * Fine)

\* the step is a frame of Game.update
IsFrame == calls'.frames = calls.frames + 1

(* C25: player containment.  From a state whose head is inside the         *)
(* radius-inset bounds, with no resize in between, after every Game.update *)
(* (every input direction, every dt <= 0.1) the head is still inside the   *)
(* radius-inset bounds.                                                    *)
C25_Containment == [][ (IsFrame /\ HeadInside) => HeadInside' ]_vars

\* the positions in the trace of the last frame at which op was called
CallsOf(op) == { i \in 1..Len(calls.trace) : calls.trace[i].op = op }

(* C23: in every Game.update frame every isPositionBlocked call happens    *)
(* before Snake.move commits, and handleFruitCollection is called exactly  *)
(* once, after the move, at the new head position.                         *)
C23_CallOrder ==
    calls.frames > 0 =>
        /\ Cardinality(CallsOf("move")) = 1
        /\ Cardinality(CallsOf("handleFruitCollection")) = 1
        /\ \A m \in CallsOf("move") :
              /\ \A b \in CallsOf("isPositionBlocked") : b < m
              /\ \A h \in CallsOf("handleFruitCollection") :
                    /\ m < h
                    /\ calls.trace[h].x = snake.x
                    /\ calls.trace[h].z = snake.z
                    /\ calls.trace[h].x = calls.trace[m].x
                    /\ calls.trace[h].z = calls.trace[m].z
                    /\ ret.op = "collect"
                          => (ret.x = ToMilli(snake.x) /\ ret.z = ToMilli(snake.z))

\* a frame with both checks made and passed, whose move changed the head
C23_Witness ==
    /\ calls.frames > 0
    /\ Cardinality(CallsOf("isPositionBlocked")) = 2
    /\ \A b \in CallsOf("isPositionBlocked") : ~calls.trace[b].result
    /\ \E m \in CallsOf("move") :
          calls.trace[m].dx # 0 /\ calls.trace[m].dz # 0

\* the distance of two path points, in milli-units
Apart(p, q) == Length3(p.x - q.x, 0, p.z - q.z)

\* path q continues path p: n new points, each nearer to the head h than
\* the one recorded before it, then the points of p in their old order
RecentFirst(p, q, h, n) ==
    /\ n <= Len(q)
    /\ SubSeq(q, n + 1, Len(q)) = SubSeq(p, 1, Len(q) - n)
    /\ \A k \in 1..n :
          Apart(q[k], h) < Apart(IF k < Len(q) THEN q[k + 1] ELSE p[1], h)

(* C29: after every Snake.move the path is most-recent-first and path[0]   *)
(* is no further than 0.1 from the true head; a move with squared length   *)
(* at most 0.000001 changes neither the position nor the path.             *)
C29_PathFollowsHead ==
    [][ IsFrame =>
          \A m \in { i \in 1..Len(calls'.trace) : calls'.trace[i].op = "move" } :
             IF IsMove(calls'.trace[m].dx, calls'.trace[m].dz)
             THEN /\ snake'.x = snake.x + calls'.trace[m].dx
                  /\ snake'.z = snake.z + calls'.trace[m].dz
                  /\ Apart(snake'.path[1], HeadPoint(snake')) <= PathSpacing
                  /\ Len(snake'.path) <= MaxPoints
                  /\ \E n \in 0..MaxPoints :
                        RecentFirst(snake.path, snake'.path, HeadPoint(snake'), n)
             ELSE snake' = snake ]_vars

\* a move of several path spacings has been recorded: the path is full and
\* its first point is a new one, short of the head
C29_Witness ==
    /\ \E m \in CallsOf("move") :
          Abs(calls.trace[m].dx) + Abs(calls.trace[m].dz) > 10 * PathSpacing * Fine
    /\ Len(snake.path) = MaxPoints
    /\ snake.path[1] # HeadPoint(snake)
    /\ Apart(snake.path[1], HeadPoint(snake)) <= PathSpacing

\* a fine x (z) coordinate passes the inset bounds test of the arena
XInside(x) ==
    /\ x >= -((width * Fine) \div 2) + HeadRadius * Fine
    /\ x <= (width * Fine) \div 2 - HeadRadius * Fine

ZInside(z) ==
    /\ z >= -((depth * Fine) \div 2) + HeadRadius * Fine
    /\ z <= (depth * Fine) \div 2 - HeadRadius * Fine

\* the checks of the frame just run: of the X move, of the Z move
ChecksX(t) == { i \in 1..Len(t) : t[i].op = "isPositionBlocked" /\ t[i].dx # 0 }

ChecksZ(t) == { i \in 1..Len(t) : t[i].op = "isPositionBlocked" /\ t[i].dz # 0 }

\* the move the frame committed
Committed(t) == t[CHOOSE i \in 1..Len(t) : t[i].op = "move"]

\* a vetoed move is not made; a resize leaves the snake where it is
VetoesHold(t) ==
    /\ \A i \in ChecksX(t) : t[i].result => Committed(t).dx = 0
    /\ \A i \in ChecksZ(t) : t[i].result => Committed(t).dz = 0

(* C26 as stated: the snake is not reset on resize; while one coordinate   *)
(* of the head is outside the inset bounds, every checked move along the   *)
(* other axis is vetoed, and a checked move along the same axis is vetoed  *)
(* unless that single step lands back inside.                              *)
C26_OtherAxisAlwaysVetoed ==
    [][ /\ ~IsFrame => snake' = snake
        /\ IsFrame =>
             /\ VetoesHold(calls'.trace)
             /\ ~XInside(snake.x) =>
                   /\ \A i \in ChecksZ(calls'.trace) : calls'.trace[i].result
                   /\ \A i \in ChecksX(calls'.trace) :
                         ~XInside(calls'.trace[i].x) => calls'.trace[i].result
             /\ ~ZInside(snake.z) =>
                   /\ \A i \in ChecksX(calls'.trace) : calls'.trace[i].result
                   /\ \A i \in ChecksZ(calls'.trace) :
                         ~ZInside(calls'.trace[i].z) => calls'.trace[i].result ]_vars

(* C26: the snake is not reset on resize; while one coordinate of the head *)
(* is outside the inset bounds, a checked move along the same axis is      *)
(* vetoed unless that single step lands back inside, and a checked move    *)
(* along the other axis is vetoed, except that with x outside the Z move   *)
(* is checked from the x the frame has just accepted, so it is vetoed      *)
(* unless that x is back inside.                                           *)
C26_OutOfBoundsLock ==
    [][ /\ ~IsFrame => snake' = snake
        /\ IsFrame =>
             /\ VetoesHold(calls'.trace)
             /\ ~XInside(snake.x) =>
                   /\ \A i \in ChecksZ(calls'.trace) :
                         ~XInside(calls'.trace[i].x) => calls'.trace[i].result
                   /\ \A i \in ChecksX(calls'.trace) :
                         ~XInside(calls'.trace[i].x) => calls'.trace[i].result
             /\ ~ZInside(snake.z) =>
                   /\ \A i \in ChecksX(calls'.trace) : calls'.trace[i].result
                   /\ \A i \in ChecksZ(calls'.trace) :
                         ~ZInside(calls'.trace[i].z) => calls'.trace[i].result ]_vars

\* after a resize left the head outside in x, a frame whose checked Z move
\* was vetoed: the head has not moved and is still outside
C26_Witness ==
    /\ calls.frames > 0
    /\ ret.op = "collect"
    /\ ~XInside(snake.x)
    /\ ZInside(snake.z)
    /\ ChecksZ(calls.trace) # {}
    /\ \A i \in ChecksZ(calls.trace) : calls.trace[i].result
    /\ Committed(calls.trace).dx = 0
    /\ Committed(calls.trace).dz = 0

====
